---------------------------- MODULE Spec2Model ----------------------------
(***************************************************************************)
(* Model of the dyad-channel coordination sidecar.                         *)
(*                                                                         *)
(*   - the proposal filter of src/src/coordination.ts (coordinationFilter, *)
(*     angleSimilarity), as operators;                                     *)
(*   - the round engine of src/src/coordination.ts (handleMessage,         *)
(*     handleRoundStart, handleMicroPropose, resolveRound, handleTimeout); *)
(*   - the dispatch holder of the channel plugin, src/unnamed/part_010     *)
(*     (onMessage, the backstop timer, onDispatchDecision, the synthesis   *)
(*     wait).                                                              *)
(*                                                                         *)
(* Text is a sequence of character codes (ASCII), so that toLowerCase,     *)
(* split and the string order "<" are computed and not assumed.            *)
(* Confidences are fixed-point numbers in thousandths (0.85 is 850); the   *)
(* thresholds are scaled the same way.                                     *)
(***************************************************************************)
EXTENDS Integers, Sequences, FiniteSets, TLC

VARIABLES
    fIn,        \* SpecFilter: the inputs of one filter evaluation
    fOut,       \* SpecFilter: <<>>, or the results of the evaluation <<mine, theirs>>
    instances,  \* the peers whose plugin instance is running in the model
    mention,    \* the text after "@" in the user message, <<>> for none
    holder,     \* per bot: the dispatch holder's state (channel plugin)
    engine,     \* per bot: the coordination handler's state (coordination.ts)
    wire,       \* coordination records on their way to a running peer
    summaries,  \* rows of the response-summary sink: <<round_id, speaker>>
    sinceBoth,  \* per message: ticks since both peers held it without any reply
    bus,        \* SpecBus: the inbound layer of one plugin process (supabase-bus.ts)
    gw,         \* SpecGateway: the gateway caller and its semaphore (callGateway)
    sup,        \* SpecSupervisor: startAccount and its reconnect loop (channel.ts)
    l2,         \* SpecLayer2: peer-chat handling of both peers (handleMessage, layer 2)
    reg         \* SpecRegister: the turn-taking register of one chat (updateRegister)

filterVars == <<fIn, fOut>>
protoVars == <<instances, mention, holder, engine, wire, summaries, sinceBoth>>
ioVars == <<bus, gw, sup, l2, reg>>
vars == <<fIn, fOut, instances, mention, holder, engine, wire, summaries,
          sinceBoth, bus, gw, sup, l2, reg>>

---------------------------------------------------------------------------
(* Thresholds, src/src/types-coordination.ts, in thousandths.              *)

CONFIDENCE_EPSILON == 10
CONFIDENCE_GAP_THRESHOLD == 300
HIGH_CONFIDENCE_THRESHOLD == 500
LOW_CONFIDENCE_THRESHOLD == 300
SYNTHESIS_CONFIDENCE_THRESHOLD == 700

\* ANGLE_OVERLAP_THRESHOLD = 0.5, as the fraction num/den
ANGLE_OVERLAP_THRESHOLD == [num |-> 1, den |-> 2]

---------------------------------------------------------------------------
(* Text helpers.                                                           *)

Range(s) == {s[i] : i \in DOMAIN s}

\* \s of the regular expression /\s+/ : space, tab, line feed
IsSpace(c) == c \in {32, 9, 10}

\* String.prototype.toLowerCase on ASCII
ToLowerCase(s) == [i \in DOMAIN s |-> IF s[i] \in 65..90 THEN s[i] + 32 ELSE s[i]]

\* Array.prototype.join(" ")
RECURSIVE JoinSp(_)
JoinSp(ws) ==
    IF ws = <<>> THEN <<>>
    ELSE IF Len(ws) = 1 THEN ws[1]
    ELSE ws[1] \o <<32>> \o JoinSp(Tail(ws))

\* s.split(/\s+/): the pieces between runs of white space. A leading or a
\* trailing run yields an empty piece, as in JavaScript.
RECURSIVE SplitFrom(_, _, _)
SplitFrom(s, i, cur) ==
    IF i > Len(s) THEN <<cur>>
    ELSE IF IsSpace(s[i])
         THEN IF i > 1 /\ IsSpace(s[i-1])
              THEN SplitFrom(s, i + 1, cur)
              ELSE <<cur>> \o SplitFrom(s, i + 1, <<>>)
         ELSE SplitFrom(s, i + 1, Append(cur, s[i]))

SplitWs(s) == SplitFrom(s, 1, <<>>)

\* the JavaScript string order a < b (code units, a proper prefix is smaller)
RECURSIVE LexLess(_, _)
LexLess(a, b) ==
    IF b = <<>> THEN FALSE
    ELSE IF a = <<>> THEN TRUE
    ELSE IF a[1] # b[1] THEN a[1] < b[1]
    ELSE LexLess(Tail(a), Tail(b))

\* Number.prototype.toFixed(2) of a value in thousandths: hundredths, rounded
ToFixed2(x) == (x + 5) \div 10

\* toFixed(2) of a fraction: hundredths, rounded
FracToFixed2(f) == (200 * f.num + f.den) \div (2 * f.den)

Abs(x) == IF x < 0 THEN -x ELSE x

\* f < g and f >= g on fractions with positive denominators
FracLess(f, g) == f.num * g.den < g.num * f.den

---------------------------------------------------------------------------
(* angleSimilarity, src/src/coordination.ts:208-225                        *)

extractKeywords(p) ==
    {w \in Range(SplitWs(ToLowerCase(p.angle \o <<32>> \o JoinSp(p.covers)))) :
        Len(w) > 2}

angleSimilarity(a, b) ==
    LET aWords == extractKeywords(a)
        bWords == extractKeywords(b)
        intersection == Cardinality({w \in aWords : w \in bWords})
        union == Cardinality(aWords \cup bWords)
    IN  IF aWords = {} /\ bWords = {} THEN [num |-> 1, den |-> 1]
        ELSE IF aWords = {} \/ bWords = {} THEN [num |-> 0, den |-> 1]
        ELSE IF union > 0 THEN [num |-> intersection, den |-> union]
        ELSE [num |-> 0, den |-> 1]

---------------------------------------------------------------------------
(* coordinationFilter, src/src/coordination.ts:111-202                     *)

\* Boolean(x) of an optional boolean field
Truthy(x) == x = "true"

\* lines 122-137: the winner and the runner-up
TieBreakWinnerMut(myName, otherName) == myName

TieBreakWinner(myName, otherName) ==
    IF LexLess(myName, otherName) THEN myName ELSE otherName

PickWinnerMut(myProposal, otherProposal, myName, otherName) ==
    LET diff == myProposal.confidence - otherProposal.confidence
    IN  IF diff = 0
        THEN LET winner == TieBreakWinner(myName, otherName)
             IN  [winner |-> winner,
                  runnerUp |-> IF winner = myName THEN otherName ELSE myName]
        ELSE IF diff > 0
        THEN [winner |-> myName, runnerUp |-> otherName]
        ELSE [winner |-> otherName, runnerUp |-> myName]

PickWinner(myProposal, otherProposal, myName, otherName) ==
    LET diff == myProposal.confidence - otherProposal.confidence
    IN  IF Abs(diff) < CONFIDENCE_EPSILON
        THEN LET winner == TieBreakWinner(myName, otherName)
             IN  [winner |-> winner,
                  runnerUp |-> IF winner = myName THEN otherName ELSE myName]
        ELSE IF diff > 0
        THEN [winner |-> myName, runnerUp |-> otherName]
        ELSE [winner |-> otherName, runnerUp |-> myName]

\* lines 151-201: the number of the first rule that matches
RuleOfMut(confidenceGap, bothHigh, bothLow, bothSynthesisReady, eitherBuildsOn, overlap) ==
    IF bothHigh /\ FracLess(overlap, ANGLE_OVERLAP_THRESHOLD) THEN 2
    ELSE IF confidenceGap > CONFIDENCE_GAP_THRESHOLD THEN 1
    ELSE IF bothSynthesisReady /\ ~FracLess(overlap, ANGLE_OVERLAP_THRESHOLD)
            /\ eitherBuildsOn THEN 3
    ELSE IF bothHigh /\ ~FracLess(overlap, ANGLE_OVERLAP_THRESHOLD) THEN 4
    ELSE IF bothLow THEN 5
    ELSE 6

RuleOf(confidenceGap, bothHigh, bothLow, bothSynthesisReady, eitherBuildsOn, overlap) ==
    IF confidenceGap > CONFIDENCE_GAP_THRESHOLD THEN 1
    ELSE IF bothHigh /\ FracLess(overlap, ANGLE_OVERLAP_THRESHOLD) THEN 2
    ELSE IF bothSynthesisReady /\ ~FracLess(overlap, ANGLE_OVERLAP_THRESHOLD)
            /\ eitherBuildsOn THEN 3
    ELSE IF bothHigh /\ ~FracLess(overlap, ANGLE_OVERLAP_THRESHOLD) THEN 4
    ELSE IF bothLow THEN 5
    ELSE 6

ModeOfRule(rule) ==
    CASE rule = 2 -> "parallel"
      [] rule = 3 -> "synthesis"
      [] OTHER -> "solo"

\* The reason string, kept as the rule that produced it, the values embedded
\* in it in the order they are embedded (each through toFixed(2)), and the
\* winner's name when the string embeds it (<<>> when it does not).
ReasonOf(rule, myProposal, otherProposal, confidenceGap, overlap, winner) ==
    CASE rule = 1 -> [rule |-> 1, vals |-> <<ToFixed2(confidenceGap)>>, who |-> winner]
      [] rule = 2 -> [rule |-> 2,
                      vals |-> <<ToFixed2(myProposal.confidence),
                                 ToFixed2(otherProposal.confidence),
                                 FracToFixed2(overlap)>>,
                      who |-> <<>>]
      [] rule = 3 -> [rule |-> 3,
                      vals |-> <<ToFixed2(myProposal.confidence),
                                 ToFixed2(otherProposal.confidence),
                                 FracToFixed2(overlap)>>,
                      who |-> <<>>]
      [] rule = 4 -> [rule |-> 4, vals |-> <<FracToFixed2(overlap)>>, who |-> winner]
      [] rule = 5 -> [rule |-> 5,
                      vals |-> <<ToFixed2(myProposal.confidence),
                                 ToFixed2(otherProposal.confidence)>>,
                      who |-> winner]
      [] OTHER -> [rule |-> 6, vals |-> <<>>, who |-> winner]

coordinationFilter(myProposal, otherProposal, myName, otherName) ==
    LET proposals == [n \in {myName, otherName} |->
                         IF n = otherName THEN otherProposal ELSE myProposal]
        w == PickWinner(myProposal, otherProposal, myName, otherName)
        confidenceGap == Abs(myProposal.confidence - otherProposal.confidence)
        overlap == angleSimilarity(myProposal, otherProposal)
        bothHigh == myProposal.confidence > HIGH_CONFIDENCE_THRESHOLD
                    /\ otherProposal.confidence > HIGH_CONFIDENCE_THRESHOLD
        bothLow == myProposal.confidence < LOW_CONFIDENCE_THRESHOLD
                   /\ otherProposal.confidence < LOW_CONFIDENCE_THRESHOLD
        bothSynthesisReady ==
            myProposal.confidence > SYNTHESIS_CONFIDENCE_THRESHOLD
            /\ otherProposal.confidence > SYNTHESIS_CONFIDENCE_THRESHOLD
        eitherBuildsOn == Truthy(myProposal.builds_on_other)
                          \/ Truthy(otherProposal.builds_on_other)
        rule == RuleOf(confidenceGap, bothHigh, bothLow, bothSynthesisReady,
                       eitherBuildsOn, overlap)
    IN  [winner |-> w.winner,
         runnerUp |-> w.runnerUp,
         proposals |-> proposals,
         mode |-> ModeOfRule(rule),
         reason |-> ReasonOf(rule, myProposal, otherProposal, confidenceGap,
                             overlap, w.winner)]

---------------------------------------------------------------------------
(* Inputs of the filter: names, confidences and angle texts.               *)

\* "A", "B", "AB", "a"
NamePool == {<<65>>, <<66>>, <<65, 66>>, <<97>>}

\* 0.00 0.29 0.30 0.50 0.51 0.70 0.705 0.71 0.82 1.00
ConfidencePool == {0, 290, 300, 500, 510, 700, 705, 710, 820, 1000}

\* angle and covers: "perf" ["latency"]; "Perf tuning" ["Latency"];
\* "security review" []; "x" []; " caching  strategy" ["a b"]
TextPool ==
    { [angle |-> <<112,101,114,102>>,
       covers |-> << <<108,97,116,101,110,99,121>> >>],
      [angle |-> <<80,101,114,102,32,116,117,110,105,110,103>>,
       covers |-> << <<76,97,116,101,110,99,121>> >>],
      [angle |-> <<115,101,99,117,114,105,116,121,32,114,101,118,105,101,119>>,
       covers |-> <<>>],
      [angle |-> <<120>>, covers |-> <<>>],
      [angle |-> <<32,99,97,99,104,105,110,103,32,32,115,116,114,97,116,101,103,121>>,
       covers |-> << <<97,32,98>> >>] }

BuildsPool == {"true", "false", "undefined"}

MkProposal(t, c, b) ==
    [angle |-> t.angle, confidence |-> c, covers |-> t.covers,
     solo_sufficient |-> TRUE, builds_on_other |-> b]

FilterInputs ==
    [pa : {MkProposal(t, c, b) : t \in TextPool, c \in ConfidencePool, b \in {"true", "undefined"}},
     pb : {MkProposal(t, c, "false") : t \in TextPool, c \in ConfidencePool},
     na : NamePool, nb : NamePool]

---------------------------------------------------------------------------
(* The two peers, the user message and the timers.                         *)
(*                                                                         *)
(* Time advances in ticks of TickMs; every timer is the number of ticks it *)
(* still has to run, and a timer that has run out fires before time moves  *)
(* on.  Awaited calls (history load, generation, posting, the reply        *)
(* pipeline) take an arbitrary time.  The 10-minute message-id window of   *)
(* the holder and the 12-minute id window of the engine outlast every      *)
(* other timer by an order of magnitude and are not run down here: the     *)
(* model covers what happens to a message within those windows.            *)

Bots == {"A", "B"}

\* opts.botName of each peer: "A" and "B"
botName == [b \in Bots |-> IF b = "A" THEN <<65>> ELSE <<66>>]

Peer(b) == CHOOSE x \in Bots : x # b

\* the bot of a name, or its peer
BotOf(name, other) ==
    LET b == CHOOSE x \in Bots : botName[x] = name
    IN  IF other THEN Peer(b) ELSE b

\* message ids; round_id is the id of the message that triggered the round
Msgs == {"m1"}

\* msgKey: chat, user and the first 80 characters of the text
msgKey == [m \in Msgs |-> "c1"]
MsgKeys == {msgKey[m] : m \in Msgs}

BACKSTOP_MS == 10000
DEFER_BACKUP_MS == 8000
CONTENT_TTL_MS == 5000
SYNTHESIS_WAIT_MS == 15000
ROUND_TIMEOUT_MS == 15000
ROUND_CLEANUP_MS == 30000

TickMs == CONTENT_TTL_MS
Ticks(ms) == (ms + TickMs - 1) \div TickMs

\* the age counters stop here
AgeCap == Ticks(ROUND_TIMEOUT_MS + BACKSTOP_MS + SYNTHESIS_WAIT_MS) + 1

\* a timer that is not running
Off == 0 - 1

Dec(t) == IF t > 0 THEN t - 1 ELSE t

---------------------------------------------------------------------------
(* Micro-proposals the generator can return.                               *)

\* "caching strategy" ["redis"], "security review" [], "perf" ["latency"]
TextCaching ==
    [angle |-> <<99,97,99,104,105,110,103,32,115,116,114,97,116,101,103,121>>,
     covers |-> << <<114,101,100,105,115>> >>]
TextSecurity ==
    [angle |-> <<115,101,99,117,114,105,116,121,32,114,101,118,105,101,119>>,
     covers |-> <<>>]
TextPerf ==
    [angle |-> <<112,101,114,102>>, covers |-> << <<108,97,116,101,110,99,121>> >>]

\* 0.82 on caching, building on the other; 0.78 on caching; 0.80 on
\* security; 0.40 on perf: every mode can come out, with either peer as
\* the winner
ProposalPool ==
    { MkProposal(TextCaching, 820, "true"),
      MkProposal(TextCaching, 780, "undefined"),
      MkProposal(TextSecurity, 800, "undefined"),
      MkProposal(TextPerf, 400, "false") }

---------------------------------------------------------------------------
(* Dispatch decisions (DispatchDecision, coordination.ts).                 *)

\* the kinds of text doDispatch is called with
\*   "raw"              the user's text alone
\*   "solo" "parallel-primary" "parallel-both" "synthesis-first"
\*                      the engine's synthesizeContext before the text
\*   "synthesis"        the winner's response quoted before the text
\*   "synthesis-fallback"  the proposal-only context after a wait timeout

FailOpenDecision(roundId, triggerMessageId) ==
    [roundId |-> roundId, triggerMessageId |-> triggerMessageId,
     shouldRespond |-> TRUE, synthesizeContext |-> "raw",
     cancelPending |-> FALSE, waitForResponse |-> <<>>]

ResolveDecisionMut(me, round) ==
    LET result == coordinationFilter(round.myProposal[1], round.otherProposal[1],
                                     me, round.otherName)
        iWin == result.winner = me
        base == [roundId |-> round.roundId, triggerMessageId |-> round.triggerMessageId,
                 shouldRespond |-> TRUE, synthesizeContext |-> "raw",
                 cancelPending |-> FALSE, waitForResponse |-> <<>>]
    IN  CASE result.mode = "solo" /\ iWin ->
               [base EXCEPT !.synthesizeContext = "solo"]
          [] result.mode = "synthesis" /\ iWin ->
               [base EXCEPT !.synthesizeContext = "synthesis-first"]
          [] result.mode = "synthesis" /\ ~iWin ->
               [base EXCEPT !.shouldRespond = FALSE,
                            !.waitForResponse =
                                <<[roundId |-> round.roundId,
                                   winnerName |-> result.winner]>>]
          [] result.mode = "parallel" /\ iWin ->
               [base EXCEPT !.synthesizeContext = "parallel-primary"]
          [] OTHER ->
               [base EXCEPT !.shouldRespond = FALSE, !.cancelPending = TRUE]

\* the decision resolveRound raises once its resolved record is posted
ResolveDecision(me, round) ==
    LET result == coordinationFilter(round.myProposal[1], round.otherProposal[1],
                                     me, round.otherName)
        iWin == result.winner = me
        base == [roundId |-> round.roundId, triggerMessageId |-> round.triggerMessageId,
                 shouldRespond |-> TRUE, synthesizeContext |-> "raw",
                 cancelPending |-> FALSE, waitForResponse |-> <<>>]
    IN  CASE result.mode = "solo" /\ iWin ->
               [base EXCEPT !.synthesizeContext = "solo"]
          [] result.mode = "solo" /\ ~iWin ->
               [base EXCEPT !.shouldRespond = FALSE, !.cancelPending = TRUE]
          [] result.mode = "parallel" /\ iWin ->
               [base EXCEPT !.synthesizeContext = "parallel-primary"]
          [] result.mode = "parallel" /\ ~iWin ->
               [base EXCEPT !.synthesizeContext = "parallel-both"]
          [] result.mode = "synthesis" /\ iWin ->
               [base EXCEPT !.synthesizeContext = "synthesis-first"]
          [] result.mode = "synthesis" /\ ~iWin ->
               [base EXCEPT !.shouldRespond = FALSE,
                            !.waitForResponse =
                                <<[roundId |-> round.roundId,
                                   winnerName |-> result.winner]>>]

---------------------------------------------------------------------------
(* The dispatch holder of one peer (channel plugin).                       *)

NoPending == [held |-> FALSE, timeoutId |-> Off]
NoWait == [on |-> FALSE, left |-> Off, roundId |-> "", winnerName |-> <<>>]

\* heldEver, cancelled and heldFor record what happened to the message:
\* it was held, a cancel decision was applied to it, and for how many ticks
\* its entry has been in pendingDispatches
InitHolder ==
    [processedMessageIds |-> {},
     seenMsgContent |-> [k \in MsgKeys |-> Off],
     pendingDispatches |-> [m \in Msgs |-> NoPending],
     dispatched |-> {},
     synthesisWait |-> [m \in Msgs |-> NoWait],
     replying |-> [m \in Msgs |-> FALSE],
     dispatches |-> [m \in Msgs |-> <<>>],
     heldEver |-> {},
     cancelled |-> {},
     heldFor |-> [m \in Msgs |-> Off]]

\* doDispatch(chatId, text, userId): one run of the reply pipeline
doDispatch(h, m, text) ==
    [h EXCEPT !.dispatches[m] = Append(@, text)]

\* dispatched.add(id); setTimeout(() => dispatched.delete(id), 60_000).
\* The 60 s are not counted: the entry may be deleted at any moment after
\* it is added, which includes the moment the timer fires.
markDispatched(h, m) ==
    [h EXCEPT !.dispatched = @ \cup {m}]

\* pendingDispatches.delete(id)
unhold(h, m) ==
    [h EXCEPT !.pendingDispatches[m] = NoPending, !.heldFor[m] = Off]

onDispatchDecisionMut(h, d) ==
    LET m == d.triggerMessageId
    IN  IF d.waitForResponse # <<>> THEN
            [h EXCEPT !.pendingDispatches[m].timeoutId = Off,
                      !.synthesisWait[m] =
                          [on |-> TRUE, left |-> Ticks(SYNTHESIS_WAIT_MS),
                           roundId |-> d.waitForResponse[1].roundId,
                           winnerName |-> d.waitForResponse[1].winnerName]]
        ELSE IF d.shouldRespond THEN
            IF m \in h.dispatched THEN h
            ELSE doDispatch([unhold(markDispatched(h, m), m)
                                EXCEPT !.replying[m] = TRUE],
                            m, d.synthesizeContext)
        ELSE IF d.cancelPending THEN
            markDispatched([unhold(h, m) EXCEPT !.cancelled = @ \cup {m}], m)
        ELSE
            [h EXCEPT !.pendingDispatches[m].timeoutId = Ticks(DEFER_BACKUP_MS)]

\* onDispatchDecision up to its first await.  Every decision of the engine
\* carries the trigger message id, so the null check has no case here.
onDispatchDecision(h, d) ==
    LET m == d.triggerMessageId
    IN  IF ~h.pendingDispatches[m].held THEN h
        ELSE IF d.waitForResponse # <<>> THEN
            [h EXCEPT !.pendingDispatches[m].timeoutId = Off,
                      !.synthesisWait[m] =
                          [on |-> TRUE, left |-> Ticks(SYNTHESIS_WAIT_MS),
                           roundId |-> d.waitForResponse[1].roundId,
                           winnerName |-> d.waitForResponse[1].winnerName]]
        ELSE IF d.shouldRespond THEN
            IF m \in h.dispatched THEN h
            ELSE doDispatch([unhold(markDispatched(h, m), m)
                                EXCEPT !.replying[m] = TRUE],
                            m, d.synthesizeContext)
        ELSE IF d.cancelPending THEN
            markDispatched([unhold(h, m) EXCEPT !.cancelled = @ \cup {m}], m)
        ELSE
            [h EXCEPT !.pendingDispatches[m].timeoutId = Ticks(DEFER_BACKUP_MS)]

backstopMut(h, m) ==
    IF ~h.pendingDispatches[m].held THEN h
    ELSE IF m \in h.dispatched THEN h
    ELSE doDispatch(markDispatched(h, m), m, "raw")

\* the backstop timer's callback (and the defer backup timer's, which does
\* the same)
backstop(h, m) ==
    IF ~h.pendingDispatches[m].held THEN h
    ELSE IF m \in h.dispatched THEN unhold(h, m)
    ELSE doDispatch(markDispatched(unhold(h, m), m), m, "raw")

\* what a poll of the response-summary sink can return now: TRUE for the
\* winner's summary, FALSE for null once the wait has run out
\* (a rejected wait is not modelled)
waitForResponseSummary(rows, roundId, winnerName, left) ==
    (IF <<roundId, winnerName>> \in rows THEN {TRUE} ELSE {})
        \cup (IF left = 0 THEN {FALSE} ELSE {})

afterSynthesisWaitMut(h, m, winnerResponse) ==
    LET h0 == [h EXCEPT !.synthesisWait[m] = NoWait]
    IN  IF ~h0.pendingDispatches[m].held THEN h0
        ELSE IF m \in h0.dispatched THEN h0
        ELSE IF ~winnerResponse THEN h0
        ELSE doDispatch([unhold(markDispatched(h0, m), m)
                            EXCEPT !.replying[m] = TRUE],
                        m, "synthesis")

\* doSynthesisWait after the wait returned
afterSynthesisWait(h, m, winnerResponse) ==
    LET h0 == [h EXCEPT !.synthesisWait[m] = NoWait]
    IN  IF ~h0.pendingDispatches[m].held THEN h0
        ELSE IF m \in h0.dispatched THEN h0
        ELSE doDispatch([unhold(markDispatched(h0, m), m)
                            EXCEPT !.replying[m] = TRUE],
                        m,
                        IF winnerResponse THEN "synthesis"
                                          ELSE "synthesis-fallback")

\* stop(): the timer of every held entry is cleared, pendingDispatches and
\* dispatched are emptied
stopHolder(h) ==
    [h EXCEPT !.pendingDispatches = [m \in Msgs |-> NoPending],
              !.heldFor = [m \in Msgs |-> Off],
              !.dispatched = {}]

---------------------------------------------------------------------------
(* The coordination handler of one peer (coordination.ts).                 *)

Kinds == {"round_start", "micro_propose", "resolved"}

InitEngine ==
    [seenMessageIds |-> {},
     rounds |-> [r \in Msgs |-> 0],
     objs |-> [r \in Msgs |-> <<>>],
     decisions |-> [r \in Msgs |-> [count |-> 0, last |-> <<>>]],
     posted |-> [r \in Msgs |-> [k \in Kinds |-> 0]]]

\* a MicroRound as handleRoundStart creates it, with the two timers and the
\* position of the handleRoundStart call that created it
\*   pc: "history" "gen" "post" "done"; activeRound: the round the call
\*   took from the store after generating; resolving: resolveRound is
\*   awaiting the post of its resolved record
NewRound(roundId, triggerMessageId) ==
    [roundId |-> roundId, triggerMessageId |-> triggerMessageId,
     myProposal |-> <<>>, otherProposal |-> <<>>, otherName |-> <<>>,
     resolved |-> FALSE,
     timeoutId |-> Ticks(ROUND_TIMEOUT_MS),
     cleanupId |-> Ticks(ROUND_CLEANUP_MS),
     pc |-> "history", activeRound |-> 0, resolving |-> FALSE]

\* the record postToCoordination writes, and its row id
Record(speaker, kind, roundId, proposal, n) ==
    [id |-> <<kind, speaker, roundId, n>>, kind |-> kind, speaker |-> speaker,
     round_id |-> roundId, trigger_message_id |-> roundId, proposal |-> proposal]

\* postToCoordination is called: counted per round and kind
posting(e, kind, r) == [e EXCEPT !.posted[r][kind] = @ + 1]

\* the rows the calls made between e0 and e1 insert when they succeed
NewRecords(b, e0, e1, r, proposal) ==
    { Record(botName[b], kind, r,
             IF kind = "micro_propose" THEN proposal ELSE <<>>,
             e1.posted[r][kind]) :
        kind \in {k \in Kinds : e1.posted[r][k] > e0.posted[r][k]} }

isDuplicate(e, id) == id \in e.seenMessageIds
see(e, id) == [e EXCEPT !.seenMessageIds = @ \cup {id}]

handleRoundStartMut(e, r, triggerMessageId) ==
    [e EXCEPT !.objs[r] = Append(@, NewRound(r, triggerMessageId)),
              !.rounds[r] = Len(e.objs[r]) + 1]

\* handleRoundStart up to its first await
handleRoundStart(e, r, triggerMessageId) ==
    IF e.rounds[r] # 0 THEN e
    ELSE [e EXCEPT !.objs[r] = Append(@, NewRound(r, triggerMessageId)),
                   !.rounds[r] = Len(e.objs[r]) + 1]

\* the round in the store is missing or resolved
Inactive(e, r) == e.rounds[r] = 0 \/ e.objs[r][e.rounds[r]].resolved

resolveRoundMut(e, r, k) ==
    IF e.objs[r][k].resolved THEN e
    ELSE posting([e EXCEPT !.objs[r][k].resolved = TRUE,
                           !.objs[r][k].resolving = TRUE], "resolved", r)

\* resolveRound up to its await of the resolved record's post; its callers
\* pass a round with both proposals
resolveRound(e, r, k) ==
    IF e.objs[r][k].resolved THEN e
    ELSE posting([e EXCEPT !.objs[r][k].resolved = TRUE,
                           !.objs[r][k].timeoutId = Off,
                           !.objs[r][k].resolving = TRUE], "resolved", r)

handleMicroProposeMut(e, r, speaker, proposal) ==
    IF e.rounds[r] = 0 THEN e
    ELSE LET k == e.rounds[r]
             e1 == [e EXCEPT !.objs[r][k].otherProposal = proposal,
                             !.objs[r][k].otherName = speaker]
         IN  IF e1.objs[r][k].myProposal = <<>> THEN e1
             ELSE resolveRound(e1, r, k)

\* handleMicroPropose
handleMicroPropose(e, r, speaker, proposal) ==
    IF Inactive(e, r) THEN e
    ELSE LET k == e.rounds[r]
             e1 == [e EXCEPT !.objs[r][k].otherProposal = proposal,
                             !.objs[r][k].otherName = speaker]
         IN  IF e1.objs[r][k].myProposal = <<>> THEN e1
             ELSE resolveRound(e1, r, k)

\* cleanup(): clearTimeout(round.timeoutId) for the rounds in the store,
\* then rounds, seenMessageIds (and respondedTo) are cleared
cleanup(e) ==
    [e EXCEPT !.objs = [r \in Msgs |->
                          [k \in DOMAIN @[r] |->
                              IF e.rounds[r] = k
                              THEN [@[r][k] EXCEPT !.timeoutId = Off]
                              ELSE @[r][k]]],
              !.rounds = [r \in Msgs |-> 0],
              !.seenMessageIds = {}]

\* a decision is raised: it is counted and kept as the round's last one
\* (and handed to the holder)
raise(e, d) ==
    [e EXCEPT !.decisions[d.roundId] = [count |-> @.count + 1, last |-> <<d>>]]

---------------------------------------------------------------------------
(* The inbound handles of the supervisor (startAccount, channel.ts): the   *)
(* one a previous start cycle may have left, and those of the loop.        *)

StaleBus == "b0"
BusPool == <<"b1", "b2", "b3", "b4", "b5", "b6", "b7">>
NoBus == "none"
SupBuses == {StaleBus} \cup {BusPool[i] : i \in DOMAIN BusPool}

\* pc: where startAccount stands; cur: the loop's variable bus; made: the
\* inbounds created by the loop; sub: the broadcast subscription of each
\* inbound ("none", "live", "dead" once the socket died, "removed"); poll:
\* whether its poll timer runs; active: the entry of activeBuses; disc, ret:
\* the inbound whose disconnect() is running, and where it was called from;
\* attempts: the loop's counter; delayMs: the sleep in progress (0: none)
InitSup ==
    [pc |-> "start", aborted |-> FALSE, cur |-> NoBus, made |-> 0,
     attempts |-> 0, delayMs |-> 0,
     sub |-> [b \in SupBuses |-> "none"],
     poll |-> [b \in SupBuses |-> FALSE],
     active |-> NoBus, disc |-> NoBus, ret |-> "none"]

---------------------------------------------------------------------------
(* Layer 2 of the coordination handler: the peer-chat records (question,   *)
(* inform, flag, delegate, status, negotiate, resolution) that handleMessage *)
(* passes to the gateway, and the replies it posts.                        *)

MAX_LAYER2_INFLIGHT == 2
MAX_COORDINATION_DEPTH == 6

\* the handleMessage calls of one peer that may be awaiting at one time
L2SlotSeq == <<"h1", "h2", "h3">>
L2Slots == {L2SlotSeq[i] : i \in DOMAIN L2SlotSeq}

NoRec == <<>>

\* per peer: layer2Inflight, respondedTo, and its handleMessage calls (pc:
\* "idle", "gateway" while callGateway is awaited, "post" while the post of
\* the reply is awaited; rec: the record handled); net: the peer-chat
\* records on their way, each to the peer named in dst; sent: the stimuli
\* already put on their way; rejected: the records whose gateway call was
\* dropped at saturation (the "Layer 2 call dropped" log line)
InitL2 ==
    [layer2Inflight |-> [b \in {"A", "B"} |-> 0],
     respondedTo |-> [b \in {"A", "B"} |-> {}],
     pc |-> [b \in {"A", "B"} |-> [h \in L2Slots |-> "idle"]],
     rec |-> [b \in {"A", "B"} |-> [h \in L2Slots |-> NoRec]],
     net |-> {},
     sent |-> {},
     rejected |-> {}]

---------------------------------------------------------------------------
(* The turn-taking register of one chat (stateRegister, updateRegister).   *)

InitReg == [topic |-> "", lastResponder |-> "", recentAngles |-> <<>>]

---------------------------------------------------------------------------
(* callGateway and its semaphore (channel plugin).  Each caller makes one  *)
(* call; a call is a loop of attempts.  A step is what runs between two    *)
(* awaits: the finally block of an attempt and the start of the next       *)
(* attempt are one step.  A caller woken from the queue resumes before any *)
(* other event is handled (its continuation is a microtask).  stop() is    *)
(* the drain of the semaphore by the cleanup function of startAccount.     *)

MAX_CONCURRENT_GATEWAY_CALLS == 3

Callers == {"c1", "c2", "c3", "c4", "c5"}

\* gwOpts.retries: 0 for callHaiku, 1 by default
RetriesPool == {0, 1}

InitGw ==
    [activeGatewayCalls |-> 0,
     gatewayQueue |-> <<>>,
     gatewayStopped |-> FALSE,
     pc |-> [c \in Callers |-> "idle"],
     attempt |-> [c \in Callers |-> 0],
     retries |-> [c \in Callers |-> 0]]

\* after the capacity check: return null when stopped ("stopped"),
\* otherwise count the call and send it
proceedMut(g, c) ==
    [g EXCEPT !.activeGatewayCalls = @ + 1, !.pc[c] = "fetch"]

proceed(g, c) ==
    IF g.gatewayStopped THEN [g EXCEPT !.pc[c] = "stopped"]
    ELSE [g EXCEPT !.activeGatewayCalls = @ + 1, !.pc[c] = "fetch"]

\* the top of the loop body up to the fetch: park if at capacity,
\* otherwise go on
attemptStart(g, c) ==
    IF g.activeGatewayCalls >= MAX_CONCURRENT_GATEWAY_CALLS
    THEN [g EXCEPT !.gatewayQueue = Append(@, c), !.pc[c] = "parked"]
    ELSE proceed(g, c)

\* the drain in stop(): gatewayStopped = true; activeGatewayCalls = 0; every
\* queued resolve is called; gatewayQueue.length = 0
stop(g) ==
    [g EXCEPT !.gatewayStopped = TRUE,
              !.activeGatewayCalls = 0,
              !.pc = [c \in Callers |-> IF @[c] = "parked" THEN "woken" ELSE @[c]],
              !.gatewayQueue = <<>>]

\* finally { activeGatewayCalls--; gatewayQueue.shift()?.() }
release(g) ==
    LET g1 == [g EXCEPT !.activeGatewayCalls = @ - 1]
    IN  IF g1.gatewayQueue = <<>> THEN g1
        ELSE [g1 EXCEPT !.pc[Head(g.gatewayQueue)] = "woken",
                        !.gatewayQueue = Tail(@)]

\* after the finally block: the next attempt, or return null
nextAttempt(g, c) ==
    IF g.attempt[c] < g.retries[c]
    THEN attemptStart([g EXCEPT !.attempt[c] = @ + 1], c)
    ELSE [g EXCEPT !.pc[c] = "done"]

\* the calls whose fetch is in flight
InFlight(g) == {c \in Callers : g.pc[c] = "fetch"}

NoWoken == \A c \in Callers : gw.pc[c] # "woken"

GwStep(g) ==
    /\ gw' = g
    /\ UNCHANGED <<fIn, fOut, instances, mention, holder, engine, wire, summaries,
                   sinceBoth, bus, sup, l2, reg>>

\* a new caller enters callGateway
Enter(c, retries) ==
    /\ NoWoken
    /\ gw.pc[c] = "idle"
    /\ GwStep(attemptStart([gw EXCEPT !.retries[c] = retries], c))

\* a parked caller, woken by a release, goes on after its await
Resume(c) ==
    /\ gw.pc[c] = "woken"
    /\ GwStep(proceed(gw, c))

\* the fetch of caller c ends: with content, with an HTTP error or an empty
\* reply, or by throwing (timeout, network)
FetchDone(c, outcome) ==
    /\ NoWoken
    /\ gw.pc[c] = "fetch"
    /\ CASE outcome = "content" -> GwStep([release(gw) EXCEPT !.pc[c] = "done"])
         [] outcome = "empty" -> GwStep(nextAttempt(release(gw), c))
         [] outcome = "throw" ->
              IF gw.attempt[c] < gw.retries[c]
              THEN GwStep([gw EXCEPT !.pc[c] = "backoff"])
              ELSE GwStep([release(gw) EXCEPT !.pc[c] = "done"])

\* the backoff sleep in the catch block ends: finally, then the next attempt
BackoffDone(c) ==
    /\ NoWoken
    /\ gw.pc[c] = "backoff"
    /\ GwStep(nextAttempt(release(gw), c))

\* the cleanup function returned by startAccount is called
Stop ==
    /\ NoWoken
    /\ GwStep(stop(gw))

---------------------------------------------------------------------------
(* The inbound layer of one plugin process (supabase-bus.ts): the durable  *)
(* rows of pending_dispatches for this bot, the broadcast fast path, the   *)
(* 5 s poll, and the bus instances that follow one another on reconnect.   *)
(* The 10 min life of an entry of processedIds is not run down.            *)

BusMsgs == {"m1", "m2"}
BusMsgOrder == <<"m1", "m2">>
Polls == {"p1"}

\* how many bus instances follow the first one, and the count at which the
\* callback counter stops
MaxBoots == 1
MaxCalls == 2

IdlePoll == [pc |-> "idle", epoch |-> 0, todo |-> <<>>, cur |-> "", lost |-> FALSE]

\* row: the status of the row of a message ("none" before its INSERT);
\* created: the bus instance during which the row was inserted, so that
\* created_at < bootTime of instance e is created < e; epoch: the running
\* instance; fast: broadcast handlers in claimAndProcess; poll: the
\* pollPending calls in progress; calls: callbacks per message id;
\* staleCalls: ids passed to the callback of an instance that booted after
\* the row was created; lostCalls: ids passed to the callback by a path
\* whose CAS update had found the row handled already
InitBus ==
    [processedIds |-> {},
     row |-> [m \in BusMsgs |-> "none"],
     created |-> [m \in BusMsgs |-> 0],
     epoch |-> 0,
     fast |-> {},
     poll |-> [p \in Polls |-> IdlePoll],
     calls |-> [m \in BusMsgs |-> 0],
     staleCalls |-> {},
     lostCalls |-> {}]

\* isDuplicate(messageId) of the bus: the test, and the insertion
IsProcessed(b, m) == m \in b.processedIds

MarkProcessedMut(b, m) == b

MarkProcessed(b, m) == [b EXCEPT !.processedIds = @ \cup {m}]

\* UPDATE ... SET status = 'handled' WHERE message_id = m AND status =
\* 'pending'; ok is whether the statement reached the table
claimRowMut(b, m, ok) == b

claimRow(b, m, ok) ==
    IF ok /\ b.row[m] = "pending" THEN [b EXCEPT !.row[m] = "handled"] ELSE b

\* the CAS update reaches the table and matches no row, the row being
\* handled already
casLost(b, m, ok) == ok /\ b.row[m] = "handled"

\* await onMessage(...) by an instance for which the row is stale or not,
\* on a path whose CAS update was lost or not
callOnMessage(b, m, stale, lost) ==
    [b EXCEPT !.calls[m] = IF @ < MaxCalls THEN @ + 1 ELSE @,
              !.staleCalls = IF stale THEN @ \cup {m} ELSE @,
              !.lostCalls = IF lost THEN @ \cup {m} ELSE @]

\* created_at < bootTime for the instance e
StaleFor(b, m, e) == b.row[m] # "none" /\ b.created[m] < e

\* position of a message in the order of created_at (ties by id)
Rank(b, m) ==
    Len(BusMsgOrder) * b.created[m] + (CHOOSE i \in DOMAIN BusMsgOrder : BusMsgOrder[i] = m)

\* SELECT * WHERE status = 'pending' AND created_at >= bootTime ORDER BY
\* created_at
SelectPending(b, e) ==
    LET S == {m \in BusMsgs : b.row[m] = "pending" /\ ~StaleFor(b, m, e)}
    IN  CHOOSE q \in [1..Cardinality(S) -> S] :
            \A i, j \in 1..Cardinality(S) : i < j => Rank(b, q[i]) < Rank(b, q[j])

BusStep(b) ==
    /\ bus' = b
    /\ UNCHANGED <<fIn, fOut, instances, mention, holder, engine, wire, summaries,
                   sinceBoth, gw, sup, l2, reg>>

\* the dispatch route inserts the row of message m
InsertRow(m) ==
    /\ bus.row[m] = "none"
    /\ BusStep([bus EXCEPT !.row[m] = "pending", !.created[m] = bus.epoch])

\* the broadcast handler of the running instance receives message m, any
\* number of times: a delivery of an id in processedIds changes nothing
Broadcast(m) ==
    IF IsProcessed(bus, m) THEN BusStep(bus)
    ELSE BusStep([MarkProcessed(bus, m) EXCEPT !.fast = @ \cup
                    {[m |-> m, stage |-> "claim", lost |-> FALSE,
                      stale |-> StaleFor(bus, m, bus.epoch)]}])

\* claimAndProcess of the fast path: the CAS update returns
FastClaim(t, ok) ==
    /\ t \in bus.fast
    /\ t.stage = "claim"
    /\ BusStep([claimRow(bus, t.m, ok) EXCEPT !.fast =
                   (@ \ {t}) \cup {[t EXCEPT !.stage = "call",
                                               !.lost = casLost(bus, t.m, ok)]}])

\* claimAndProcess of the fast path: the callback
FastCall(t) ==
    /\ t \in bus.fast
    /\ t.stage = "call"
    /\ BusStep([callOnMessage(bus, t.m, t.stale, t.lost) EXCEPT !.fast = @ \ {t}])

\* pollPending of the running instance starts: the bulk update of the
\* rows older than its boot
PollStart(p, ok) ==
    /\ bus.poll[p].pc = "idle"
    /\ BusStep([bus EXCEPT
          !.row = [m \in BusMsgs |->
                      IF ok /\ @[m] = "pending" /\ StaleFor(bus, m, bus.epoch)
                      THEN "handled" ELSE @[m]],
          !.poll[p] = [IdlePoll EXCEPT !.pc = "select", !.epoch = bus.epoch]])

\* pollPending: the select returns
PollSelect(p) ==
    /\ bus.poll[p].pc = "select"
    /\ BusStep([bus EXCEPT !.poll[p].pc = "loop",
                           !.poll[p].todo = SelectPending(bus, bus.poll[p].epoch)])

\* pollPending: the next row of the loop, or the end of the poll
PollNext(p) ==
    LET q == bus.poll[p]
        m == Head(q.todo)
    IN  /\ q.pc = "loop"
        /\ IF q.todo = <<>> THEN BusStep([bus EXCEPT !.poll[p] = IdlePoll])
           ELSE IF IsProcessed(bus, m)
           THEN BusStep([bus EXCEPT !.poll[p].pc = "silent", !.poll[p].cur = m,
                                    !.poll[p].todo = Tail(q.todo)])
           ELSE BusStep([MarkProcessed(bus, m) EXCEPT
                                    !.poll[p].pc = "claim", !.poll[p].cur = m,
                                    !.poll[p].todo = Tail(q.todo)])

\* pollPending: the silent claim of a row whose id is in processedIds
PollSilent(p, ok) ==
    /\ bus.poll[p].pc = "silent"
    /\ BusStep([claimRow(bus, bus.poll[p].cur, ok) EXCEPT !.poll[p].pc = "loop"])

\* pollPending: claimAndProcess, the CAS update returns
PollClaim(p, ok) ==
    /\ bus.poll[p].pc = "claim"
    /\ BusStep([claimRow(bus, bus.poll[p].cur, ok) EXCEPT
                   !.poll[p].pc = "call",
                   !.poll[p].lost = casLost(bus, bus.poll[p].cur, ok)])

\* pollPending: claimAndProcess, the callback; when it throws, the catch
\* ends the poll
PollCall(p, thrown) ==
    LET q == bus.poll[p]
    IN  /\ q.pc = "call"
        /\ BusStep([callOnMessage(bus, q.cur, StaleFor(bus, q.cur, q.epoch), q.lost)
                       EXCEPT !.poll[p] = IF thrown THEN IdlePoll
                                          ELSE [@ EXCEPT !.pc = "loop", !.lost = FALSE]])

\* pollPending: an awaited statement throws, the catch ends the poll
PollFail(p) ==
    /\ bus.poll[p].pc \in {"select", "silent"}
    /\ BusStep([bus EXCEPT !.poll[p] = IdlePoll])

\* the socket dies and the reconnect loop starts the next bus instance,
\* with a new bootTime; processedIds is module state and stays
Reboot ==
    /\ bus.epoch < MaxBoots
    /\ BusStep([bus EXCEPT !.epoch = @ + 1])

InitBusSpec ==
    /\ fIn = <<>>
    /\ fOut = <<>>
    /\ instances = {}
    /\ mention = <<>>
    /\ holder = [b \in Bots |-> InitHolder]
    /\ engine = [b \in Bots |-> InitEngine]
    /\ wire = {}
    /\ summaries = {}
    /\ sinceBoth = [m \in Msgs |-> Off]
    /\ bus = InitBus
    /\ gw = InitGw
    /\ sup = InitSup
    /\ l2 = InitL2
    /\ reg = InitReg

NextBus ==
    \/ \E m \in BusMsgs : InsertRow(m)
    \/ \E m \in BusMsgs : Broadcast(m)
    \/ \E t \in bus.fast, ok \in BOOLEAN : FastClaim(t, ok)
    \/ \E t \in bus.fast : FastCall(t)
    \/ \E p \in Polls, ok \in BOOLEAN : PollStart(p, ok)
    \/ \E p \in Polls : PollSelect(p)
    \/ \E p \in Polls : PollNext(p)
    \/ \E p \in Polls, ok \in BOOLEAN : PollSilent(p, ok)
    \/ \E p \in Polls, ok \in BOOLEAN : PollClaim(p, ok)
    \/ \E p \in Polls, thrown \in BOOLEAN : PollCall(p, thrown)
    \/ \E p \in Polls : PollFail(p)
    \/ Reboot

SpecBus == InitBusSpec /\ [][NextBus]_vars

\* the poll timer keeps firing, every started poll goes on, and a statement
\* that is retried again and again reaches the table at some time
FairBus ==
    /\ \A p \in Polls :
          /\ SF_vars(PollStart(p, TRUE))
          /\ SF_vars(PollSelect(p))
          /\ SF_vars(PollNext(p))
          /\ WF_vars(\E thrown \in BOOLEAN : PollCall(p, thrown))
          /\ WF_vars(\E ok \in BOOLEAN : PollClaim(p, ok))
    /\ \A m \in BusMsgs :
          SF_vars(\E p \in Polls : bus.poll[p].cur = m /\ PollSilent(p, TRUE))

SpecBusFair == SpecBus /\ FairBus

\* the gateway caller on its own
InitGateway ==
    /\ fIn = <<>>
    /\ fOut = <<>>
    /\ instances = {}
    /\ mention = <<>>
    /\ holder = [b \in Bots |-> InitHolder]
    /\ engine = [b \in Bots |-> InitEngine]
    /\ wire = {}
    /\ summaries = {}
    /\ sinceBoth = [m \in Msgs |-> Off]
    /\ bus = InitBus
    /\ gw = InitGw
    /\ sup = InitSup
    /\ l2 = InitL2
    /\ reg = InitReg

NextGateway ==
    \/ \E c \in Callers, retries \in RetriesPool : Enter(c, retries)
    \/ \E c \in Callers : Resume(c)
    \/ \E c \in Callers, outcome \in {"content", "empty", "throw"} : FetchDone(c, outcome)
    \/ \E c \in Callers : BackoffDone(c)
    \/ Stop

SpecGateway == InitGateway /\ [][NextGateway]_vars

---------------------------------------------------------------------------
(* The supervisor: startAccount of channel.ts, its reconnect loop, and the *)
(* inbound (bus) handles it creates.  A previous start cycle may have left *)
(* its inbound in activeBuses.  An awaited call of the Supabase client     *)
(* either returns or throws.                                               *)

\* an inbound that still delivers: its subscription is live or its poll runs
LiveInbound(s) == {b \in SupBuses : s.sub[b] = "live" \/ s.poll[b]}

SupStep(s) ==
    /\ sup' = s
    /\ UNCHANGED <<fIn, fOut, instances, mention, holder, engine, wire, summaries,
                   sinceBoth, bus, gw, l2, reg>>

\* disconnect() up to its first await: stopPolling, keepalive cleared,
\* removeChannel(coordChannel) pending
disconnectStart(s, b, ret) ==
    [s EXCEPT !.poll[b] = FALSE, !.disc = b, !.ret = ret, !.pc = "discCoord"]

\* BACKOFF of startAccount, in ms; jitter in thousandths
BACKOFF == [initialMs |-> 2000, maxMs |-> 60000, factor |-> 2, jitter |-> 200]

\* Math.random() * 2 - 1, in thousandths: a value of [-1, 1)
JitterPool == {-1000, -500, 0, 500, 999}

MinOf(a, b) == IF a < b THEN a ELSE b

computeBackoffMut(p, attempt, u) ==
    LET base == MinOf(p.initialMs * p.factor ^ attempt, p.maxMs)
    IN  base + ((base \div 1000) * p.jitter * u) \div 1000

\* computeBackoff with Math.random() * 2 - 1 = u / 1000, to the whole ms
\* (base is a whole number of seconds)
computeBackoff(p, attempt, u) ==
    LET base == MinOf(p.initialMs * p.factor ^ (attempt - 1), p.maxMs)
    IN  base + ((base \div 1000) * p.jitter * u) \div 1000

\* after `try { await bus.disconnect() } catch (_) {}`: activeBuses.delete,
\* then the loop (stale cleanup), or the abort test, attempts++ and the
\* backoff sleep
afterDisconnect(s, u) ==
    LET s1 == [s EXCEPT !.active = NoBus, !.disc = NoBus, !.ret = "none"]
    IN  IF s.ret = "stale" THEN [s1 EXCEPT !.pc = "top"]
        ELSE IF s.aborted THEN [s1 EXCEPT !.pc = "exited"]
        ELSE [s1 EXCEPT !.pc = "sleeping", !.attempts = s.attempts + 1,
                        !.delayMs = computeBackoff(BACKOFF, s.attempts + 1, u)]

\* startAccount begins: a stale inbound in activeBuses is disconnected first
StartAccount ==
    /\ sup.pc = "start"
    /\ IF sup.active # NoBus THEN SupStep(disconnectStart(sup, sup.active, "stale"))
       ELSE SupStep([sup EXCEPT !.pc = "top"])

\* while (!aborted): startDyadBus is called, its sign-in pending
LoopTop ==
    /\ sup.pc = "top"
    /\ IF sup.aborted THEN SupStep([sup EXCEPT !.pc = "exited"])
       ELSE /\ sup.made < Len(BusPool)
            /\ SupStep([sup EXCEPT !.made = @ + 1, !.cur = BusPool[sup.made + 1],
                                   !.pc = "connecting"])

\* startDyadBus returns the handle (subscribed, polling; attempts = 0), or
\* throws
Connected(ok, u) ==
    /\ sup.pc = "connecting"
    /\ IF ok
       THEN SupStep([sup EXCEPT !.sub[sup.cur] = "live", !.poll[sup.cur] = TRUE,
                                !.active = sup.cur, !.attempts = 0,
                                !.pc = "waiting"])
       ELSE SupStep(afterDisconnect([sup EXCEPT !.cur = NoBus, !.ret = "loop"], u))

\* the socket of an inbound dies: CLOSED, CHANNEL_ERROR or TIMED_OUT
Die(b) ==
    /\ sup.sub[b] = "live"
    /\ SupStep([sup EXCEPT !.sub[b] = "dead"])

\* waitUntilDead() of the current inbound resolves; its disconnect begins
WaitOver ==
    /\ sup.pc = "waiting"
    /\ sup.sub[sup.cur] = "dead"
    /\ SupStep(disconnectStart(sup, sup.cur, "loop"))

\* disconnect(): removeChannel(coordChannel) returns or throws
DiscCoord(ok, u) ==
    /\ sup.pc = "discCoord"
    /\ IF ok THEN SupStep([sup EXCEPT !.pc = "discDispatch"])
       ELSE SupStep(afterDisconnect(sup, u))

\* disconnect(): removeChannel(dispatchChannel) returns or throws
DiscDispatch(ok, u) ==
    /\ sup.pc = "discDispatch"
    /\ IF ok THEN SupStep([sup EXCEPT !.sub[sup.disc] = "removed", !.pc = "discAll"])
       ELSE SupStep(afterDisconnect(sup, u))

\* disconnect(): removeAllChannels() returns or throws
DiscAll(u) ==
    /\ sup.pc = "discAll"
    /\ SupStep(afterDisconnect(sup, u))

\* sleepWithAbort resolves: by its timer or by the abort
SleepDone ==
    /\ sup.pc = "sleeping"
    /\ SupStep([sup EXCEPT !.pc = "top", !.delayMs = 0])

\* ctx.abortSignal is raised
Abort ==
    /\ ~sup.aborted
    /\ sup.pc # "exited"
    /\ SupStep([sup EXCEPT !.aborted = TRUE])

InitSupervisor ==
    /\ fIn = <<>>
    /\ fOut = <<>>
    /\ instances = {}
    /\ mention = <<>>
    /\ holder = [b \in Bots |-> InitHolder]
    /\ engine = [b \in Bots |-> InitEngine]
    /\ wire = {}
    /\ summaries = {}
    /\ sinceBoth = [m \in Msgs |-> Off]
    /\ bus = InitBus
    /\ gw = InitGw
    /\ \E stale \in BOOLEAN :
          sup = IF stale
                THEN [InitSup EXCEPT !.sub[StaleBus] = "live", !.poll[StaleBus] = TRUE,
                                     !.active = StaleBus]
                ELSE InitSup
    /\ l2 = InitL2
    /\ reg = InitReg

NextSupervisor ==
    \/ StartAccount
    \/ LoopTop
    \/ \E ok \in BOOLEAN, u \in JitterPool : Connected(ok, u)
    \/ \E b \in SupBuses : Die(b)
    \/ WaitOver
    \/ \E ok \in BOOLEAN, u \in JitterPool : DiscCoord(ok, u)
    \/ \E ok \in BOOLEAN, u \in JitterPool : DiscDispatch(ok, u)
    \/ \E u \in JitterPool : DiscAll(u)
    \/ SleepDone
    \/ Abort

SpecSupervisor == InitSupervisor /\ [][NextSupervisor]_vars

\* every awaited call of startAccount returns or throws, and its timers fire;
\* the death of a socket is an event of the network, with no fairness
FairSupervisor ==
    /\ WF_vars(StartAccount)
    /\ WF_vars(LoopTop)
    /\ WF_vars(\E ok \in BOOLEAN, u \in JitterPool : Connected(ok, u))
    /\ WF_vars(WaitOver)
    /\ WF_vars(\E ok \in BOOLEAN, u \in JitterPool : DiscCoord(ok, u))
    /\ WF_vars(\E ok \in BOOLEAN, u \in JitterPool : DiscDispatch(ok, u))
    /\ WF_vars(\E u \in JitterPool : DiscAll(u))
    /\ WF_vars(SleepDone)

SpecSupervisorFair == SpecSupervisor /\ FairSupervisor

---------------------------------------------------------------------------
(* SpecLayer2: two peers handle peer-chat records.  Stimuli are written to *)
(* the coordination chat for peer A; each peer answers the other's records *)
(* through handleMessage.  A round of A opens, reaches its deadline and is *)
(* collected meanwhile.  A record is delivered once (its id is new to the  *)
(* id window), and the 10 min life of an entry of respondedTo is not run   *)
(* down.                                                                   *)

AgentKinds == {"question", "inform", "delegate", "status", "flag"}

NoTo == <<>>

\* the peer-chat records written for A from outside the handler; hops
\* counts the automatic replies that led to a record
Stimuli ==
    {[id |-> <<"chat", botName["B"], "q1", 3>>, dst |-> "A", speaker |-> botName["B"],
      kind |-> "question", to |-> NoTo, depth |-> 3, expects_reply |-> TRUE,
      content |-> "q1", hops |-> 0],
     [id |-> <<"chat", botName["B"], "q2", 5>>, dst |-> "A", speaker |-> botName["B"],
      kind |-> "inform", to |-> botName["A"], depth |-> 5, expects_reply |-> TRUE,
      content |-> "q2", hops |-> 0],
     [id |-> <<"chat", botName["B"], "q3", 6>>, dst |-> "A", speaker |-> botName["B"],
      kind |-> "flag", to |-> NoTo, depth |-> 6, expects_reply |-> TRUE,
      content |-> "q3", hops |-> 0],
     [id |-> <<"chat", botName["B"], "q4", 0>>, dst |-> "A", speaker |-> botName["B"],
      kind |-> "status", to |-> botName["A"], depth |-> 0, expects_reply |-> FALSE,
      content |-> "q4", hops |-> 0],
     [id |-> <<"chat", botName["B"], "q5", 0>>, dst |-> "A", speaker |-> botName["B"],
      kind |-> "delegate", to |-> <<67>>, depth |-> 0, expects_reply |-> TRUE,
      content |-> "q5", hops |-> 0],
     [id |-> <<"chat", botName["B"], "q6", 0>>, dst |-> "A", speaker |-> botName["B"],
      kind |-> "negotiate", to |-> NoTo, depth |-> 0, expects_reply |-> TRUE,
      content |-> "q6", hops |-> 0],
     [id |-> <<"chat", botName["B"], "q7", 0>>, dst |-> "A", speaker |-> botName["B"],
      kind |-> "resolution", to |-> NoTo, depth |-> 0, expects_reply |-> TRUE,
      content |-> "q7", hops |-> 0]}

\* the stimuli written in one behaviour
MaxStimuli == 3

\* what callGateway returns: null, a text that isValidResponse refuses, a
\* text it accepts; "throw" for a rejected promise
Responses == {"null", "error", "text", "throw"}

isValidResponse(response) == response = "text"

\* the text of the reply posted at a depth
ReplyText == <<"r1", "r2", "r3", "r4", "r5", "r6", "r7">>

hasActiveRound(e) ==
    \E r \in Msgs : e.rounds[r] # 0 /\ ~e.objs[r][e.rounds[r]].resolved

\* the first idle handleMessage call of peer b
FreeSlot(x, b) ==
    L2SlotSeq[CHOOSE i \in DOMAIN L2SlotSeq :
                 /\ x.pc[b][L2SlotSeq[i]] = "idle"
                 /\ \A j \in 1..(i - 1) : x.pc[b][L2SlotSeq[j]] # "idle"]

callGatewayGuardedMut(x, b, rec) ==
    IF x.layer2Inflight[b] > MAX_LAYER2_INFLIGHT
    THEN [x EXCEPT !.rejected = @ \cup {rec.id}]
    ELSE LET h == FreeSlot(x, b)
         IN  [x EXCEPT !.layer2Inflight[b] = @ + 1,
                       !.pc[b][h] = "gateway", !.rec[b][h] = rec]

\* callGatewayGuarded up to its await: at saturation null is returned (the
\* caller posts nothing and ends), otherwise the call is counted and sent
callGatewayGuarded(x, b, rec) ==
    IF x.layer2Inflight[b] >= MAX_LAYER2_INFLIGHT
    THEN [x EXCEPT !.rejected = @ \cup {rec.id}]
    ELSE LET h == FreeSlot(x, b)
         IN  [x EXCEPT !.layer2Inflight[b] = @ + 1,
                       !.pc[b][h] = "gateway", !.rec[b][h] = rec]

\* alreadyRespondedTo: the key is added when it is new
respondedKey(rec) == <<rec.speaker, rec.content>>

handlePeerChatMut(x, b, rec, active) ==
    LET seen == respondedKey(rec) \in x.respondedTo[b]
        x1 == [x EXCEPT !.respondedTo[b] = @ \cup {respondedKey(rec)}]
    IN  CASE rec.kind \in AgentKinds ->
                 IF rec.to # NoTo /\ rec.to # botName[b] THEN x
                 ELSE IF seen THEN x
                 ELSE callGatewayGuarded(x1, b, rec)
          [] rec.kind = "resolution" ->
                 IF active THEN x ELSE callGatewayGuarded(x, b, rec)
          [] rec.kind = "negotiate" ->
                 IF active THEN x
                 ELSE IF seen THEN x
                 ELSE callGatewayGuarded(x1, b, rec)

\* handleMessage for a layer 2 record, up to its first await; active is
\* hasActiveRound()
handlePeerChat(x, b, rec, active) ==
    LET seen == respondedKey(rec) \in x.respondedTo[b]
        x1 == [x EXCEPT !.respondedTo[b] = @ \cup {respondedKey(rec)}]
    IN  CASE rec.kind \in AgentKinds ->
                 IF rec.to # NoTo /\ rec.to # botName[b] THEN x
                 ELSE IF active THEN x
                 ELSE IF seen THEN x
                 ELSE callGatewayGuarded(x1, b, rec)
          [] rec.kind = "resolution" ->
                 IF active THEN x ELSE callGatewayGuarded(x, b, rec)
          [] rec.kind = "negotiate" ->
                 IF active THEN x
                 ELSE IF seen THEN x
                 ELSE callGatewayGuarded(x1, b, rec)

\* the reply that handleMessage posts to a record
Reply(b, rec) ==
    [id |-> <<"chat", botName[b], ReplyText[rec.depth + 1], rec.depth + 1>>,
     dst |-> Peer(b), speaker |-> botName[b],
     kind |-> IF rec.kind = "negotiate" THEN "negotiate" ELSE "inform",
     to |-> rec.speaker, depth |-> rec.depth + 1,
     expects_reply |-> IF rec.kind = "negotiate" THEN TRUE
                       ELSE rec.depth + 1 < MAX_COORDINATION_DEPTH - 1,
     content |-> ReplyText[rec.depth + 1], hops |-> rec.hops + 1]

repliesMut(rec, response) ==
    CASE rec.kind \in AgentKinds ->
             /\ isValidResponse(response)
             /\ rec.expects_reply # FALSE
             /\ rec.depth <= MAX_COORDINATION_DEPTH
      [] rec.kind = "negotiate" ->
             isValidResponse(response) /\ rec.depth <= MAX_COORDINATION_DEPTH
      [] OTHER -> FALSE

\* whether handleMessage posts a reply after the gateway returned
replies(rec, response) ==
    CASE rec.kind \in AgentKinds ->
             /\ isValidResponse(response)
             /\ rec.expects_reply # FALSE
             /\ rec.depth < MAX_COORDINATION_DEPTH
      [] rec.kind = "negotiate" ->
             isValidResponse(response) /\ rec.depth < MAX_COORDINATION_DEPTH
      [] OTHER -> FALSE

L2Step(x) ==
    /\ l2' = x
    /\ UNCHANGED <<fIn, fOut, instances, mention, holder, wire, summaries,
                   sinceBoth, bus, gw, sup, reg>>

\* a peer-chat record is written to the coordination chat for A
Send(s) ==
    /\ s.id \notin l2.sent
    /\ Cardinality(l2.sent) < MaxStimuli
    /\ L2Step([l2 EXCEPT !.net = @ \cup {s}, !.sent = @ \cup {s.id}])
    /\ UNCHANGED engine

\* handleMessage: the bus hands peer b a layer 2 record
DeliverChat(b, rec) ==
    /\ rec \in l2.net
    /\ rec.dst = b
    /\ \E h \in L2Slots : l2.pc[b][h] = "idle"
    /\ ~isDuplicate(engine[b], rec.id)
    /\ L2Step(handlePeerChat([l2 EXCEPT !.net = @ \ {rec}], b, rec,
                             hasActiveRound(engine[b])))
    /\ engine' = [engine EXCEPT ![b] = see(@, rec.id)]

\* callGatewayGuarded resumes: finally { layer2Inflight-- }, then the reply
\* is posted (ok: the post reaches the chat) and the call of handleMessage
\* ends; after the await of the post nothing but a log line follows
GatewayReturned(b, h, response, ok) ==
    LET rec == l2.rec[b][h]
        x1 == [l2 EXCEPT !.layer2Inflight[b] = @ - 1]
    IN  /\ l2.pc[b][h] = "gateway"
        /\ UNCHANGED engine
        /\ L2Step([x1 EXCEPT
                      !.pc[b][h] = "idle", !.rec[b][h] = NoRec,
                      !.net = IF response # "throw" /\ replies(rec, response) /\ ok
                              THEN @ \cup {Reply(b, rec)} ELSE @])

---------------------------------------------------------------------------
(* The register on its own: any sequence of updateRegister calls for one   *)
(* chat.  The plugin passes its own bot name; the function takes any.      *)

RegAgents == {"a1", "a2", "a3", "a4", "a5", "a6"}

\* proposal.angle and proposal.covers of the proposals passed
RegProposals ==
    {[angle |-> a, covers |-> c] : a \in {"x", "y"}, c \in {<<>>, <<"t">>}}

\* Array.prototype.slice(0, n)
slice(q, n) == SubSeq(q, 1, MinOf(n, Len(q)))

\* recentAngles.filter(a => a.agent !== responderName)
otherAgents(q, responderName) ==
    SelectSeq(q, LAMBDA a : a.agent # responderName)

updateRegisterMut(current, responderName, proposal) ==
    [topic |-> IF proposal.covers # <<>> THEN proposal.covers[1] ELSE current.topic,
     lastResponder |-> responderName,
     recentAngles |->
         <<[agent |-> responderName, angle |-> proposal.angle]>>
            \o slice(otherAgents(current.recentAngles, responderName), 5)]

\* updateRegister: the entry of the responder goes first, the entries of the
\* other agents follow, four at most
updateRegister(current, responderName, proposal) ==
    [topic |-> IF proposal.covers # <<>> THEN proposal.covers[1] ELSE current.topic,
     lastResponder |-> responderName,
     recentAngles |->
         <<[agent |-> responderName, angle |-> proposal.angle]>>
            \o slice(otherAgents(current.recentAngles, responderName), 4)]

UpdateRegister(responderName, proposal) ==
    /\ reg' = updateRegister(reg, responderName, proposal)
    /\ UNCHANGED <<fIn, fOut, instances, mention, holder, engine, wire, summaries,
                   sinceBoth, bus, gw, sup, l2>>

InitRegister ==
    /\ fIn = <<>>
    /\ fOut = <<>>
    /\ instances = {}
    /\ mention = <<>>
    /\ holder = [b \in Bots |-> InitHolder]
    /\ engine = [b \in Bots |-> InitEngine]
    /\ wire = {}
    /\ summaries = {}
    /\ sinceBoth = [m \in Msgs |-> Off]
    /\ bus = InitBus
    /\ gw = InitGw
    /\ sup = InitSup
    /\ l2 = InitL2
    /\ reg = InitReg

NextRegister ==
    \E responderName \in RegAgents, proposal \in RegProposals :
        UpdateRegister(responderName, proposal)

SpecRegister == InitRegister /\ [][NextRegister]_vars

---------------------------------------------------------------------------
(* The protocol: two peers, one coordination chat, one summary sink.       *)

\* the instance that runs against an arbitrary peer
Self == "A"

\* the text after "@" in the user message: none, "a", "B", "C"
MentionPool == {<<>>, <<97>>, <<66>>, <<67>>}

\* ticks since both peers held m and no peer has called doDispatch yet
Since(hs, old) ==
    [m \in Msgs |->
        IF \E b \in Bots : hs[b].dispatches[m] # <<>> THEN Off
        ELSE IF \A b \in Bots : m \in hs[b].heldEver
             THEN (IF old[m] = Off THEN 0 ELSE old[m])
             ELSE Off]

Init ==
    /\ fIn = <<>>
    /\ fOut = <<>>
    /\ instances = {Self}
    /\ mention \in MentionPool
    /\ holder = [b \in Bots |-> InitHolder]
    /\ engine = [b \in Bots |-> InitEngine]
    /\ wire = {}
    /\ summaries = {}
    /\ sinceBoth = [m \in Msgs |-> Off]
    /\ bus = InitBus
    /\ gw = InitGw
    /\ sup = InitSup
    /\ l2 = InitL2
    /\ reg = InitReg

\* a round object that no handler can reach any more: it is not in the
\* store, no resolveRound is awaiting on it and no handleRoundStart call
\* holds it as activeRound.  Its timers and the call that created it go on.
Unreachable(e, r, k) ==
    /\ e.rounds[r] # k
    /\ ~e.objs[r][k].resolving
    /\ \A j \in DOMAIN e.objs[r] :
          ~(e.objs[r][j].pc = "post" /\ e.objs[r][j].activeRound = k)

\* the garbage collector: the fields of unreachable round objects are gone
Collect(e) ==
    [e EXCEPT !.objs = [r \in Msgs |->
        [k \in DOMAIN @[r] |->
            IF Unreachable(e, r, k)
            THEN [@[r][k] EXCEPT !.myProposal = <<>>, !.otherProposal = <<>>,
                                 !.otherName = <<>>, !.resolved = TRUE]
            ELSE @[r][k]]]]

\* the holder and the engine of b take new values, and the records b
\* posted are on their way to its peer if the peer is running
Step(b, h, e, recs) ==
    /\ holder' = [holder EXCEPT ![b] = h]
    /\ engine' = [engine EXCEPT ![b] = Collect(e)]
    /\ wire' = IF Peer(b) \in instances THEN wire \cup recs ELSE wire
    /\ sinceBoth' = Since(holder', sinceBoth)
    /\ UNCHANGED <<fIn, fOut, instances, mention, bus, gw, sup, l2, reg>>

\* onMessage: the bus hands user message m to bot b
DeliverMessage(b, m) ==
    LET h == holder[b]
        e == engine[b]
        h1 == [h EXCEPT !.processedMessageIds = @ \cup {m}]
        h2 == [h1 EXCEPT !.seenMsgContent[msgKey[m]] = Ticks(CONTENT_TTL_MS)]
        h3 == [h2 EXCEPT !.pendingDispatches[m] =
                             [held |-> TRUE, timeoutId |-> Ticks(BACKSTOP_MS)],
                         !.heldEver = @ \cup {m},
                         !.heldFor[m] = 0]
        e1 == posting(e, "round_start", m)
        localId == <<"local", "system", m, 0>>
        e2 == IF isDuplicate(e1, localId) THEN e1
              ELSE handleRoundStart(see(e1, localId), m, m)
    IN  /\ b \in instances
        /\ UNCHANGED summaries
        /\ IF m \in h.processedMessageIds
             THEN Step(b, h, e, {})
           ELSE IF h1.seenMsgContent[msgKey[m]] # Off
             THEN Step(b, h1, e, {})
           ELSE IF mention # <<>>
             THEN Step(b, IF ToLowerCase(mention) = ToLowerCase(botName[b])
                          THEN doDispatch(h2, m, "raw") ELSE h2, e, {})
           ELSE IF h2.pendingDispatches[m].held \/ m \in h2.dispatched
             THEN Step(b, h2, e, {})
           ELSE Step(b, h3, e2, NewRecords(b, e, e1, m, <<>>))

\* the backstop (or defer backup) timer of a held message fires
BackstopFire(b, m) ==
    /\ holder[b].pendingDispatches[m].timeoutId = 0
    /\ Step(b, backstop([holder[b] EXCEPT !.pendingDispatches[m].timeoutId = Off], m),
            engine[b], {})
    /\ UNCHANGED summaries

\* the synthesis wait returns: the winner's summary was found, or the wait
\* ran out
SynthesisWaitDone(b, m) ==
    LET w == holder[b].synthesisWait[m]
    IN  /\ w.on
        /\ \E winnerResponse \in
                waitForResponseSummary(summaries, w.roundId, w.winnerName, w.left) :
              Step(b, afterSynthesisWait(holder[b], m, winnerResponse), engine[b], {})
        /\ UNCHANGED summaries

\* doDispatch returns to the decision path that awaited it; a non-empty
\* reply is summarised in the sink (writeResponseSummary, best effort)
DispatchReturned(b, m, written) ==
    /\ holder[b].replying[m]
    /\ Step(b, [holder[b] EXCEPT !.replying[m] = FALSE], engine[b], {})
    /\ summaries' = summaries \cup
                       (IF written THEN {<<m, botName[b]>>} ELSE {})

\* setTimeout(() => dispatched.delete(id), 60_000) fires
DispatchedExpire(b, m) ==
    /\ m \in holder[b].dispatched
    /\ Step(b, [holder[b] EXCEPT !.dispatched = @ \ {m}], engine[b], {})
    /\ UNCHANGED summaries

\* setTimeout(() => seenMsgContent.delete(msgKey), 5_000) fires
ContentExpire(b, k) ==
    /\ holder[b].seenMsgContent[k] = 0
    /\ Step(b, [holder[b] EXCEPT !.seenMsgContent[k] = Off], engine[b], {})
    /\ UNCHANGED summaries

\* handleMessage: the bus hands bot b a record of the coordination chat
DeliverCoord(b, rec) ==
    LET e == engine[b]
        e1 == see(e, rec.id)
        r == rec.round_id
        e2 == CASE isDuplicate(e, rec.id) -> e
                [] rec.kind = "round_start" ->
                     handleRoundStart(e1, r, rec.trigger_message_id)
                [] rec.kind = "micro_propose" ->
                     handleMicroPropose(e1, r, rec.speaker, rec.proposal)
                [] rec.kind = "resolved" -> e1
    IN  /\ b \in instances
        /\ Step(b, holder[b], e2, NewRecords(b, e, e2, r, <<>>))
        /\ UNCHANGED summaries

\* handleRoundStart resumes after loading the history
HistoryLoaded(b, r, k) ==
    LET e == engine[b]
    IN  /\ k \in DOMAIN e.objs[r]
        /\ e.objs[r][k].pc = "history"
        /\ Step(b, holder[b],
                [e EXCEPT !.objs[r][k].pc =
                              IF Inactive(e, r) THEN "done" ELSE "gen"], {})
        /\ UNCHANGED summaries

ProposalGeneratedMut(b, r, k, gen) ==
    LET e == engine[b]
        d == FailOpenDecision(r, e.objs[r][k].triggerMessageId)
        eNull == raise([e EXCEPT !.objs[r][k].timeoutId = Off,
                                 !.objs[r][k].pc = "done"], d)
        cur == e.rounds[r]
        ePost == posting([e EXCEPT !.objs[r][cur].myProposal = gen,
                                   !.objs[r][k].pc = "post",
                                   !.objs[r][k].activeRound = cur],
                         "micro_propose", r)
    IN  /\ k \in DOMAIN e.objs[r]
        /\ e.objs[r][k].pc = "gen"
        /\ UNCHANGED summaries
        /\ IF gen = <<>>
             THEN Step(b, onDispatchDecision(holder[b], d), eNull, {})
           ELSE IF Inactive(e, r)
             THEN Step(b, holder[b], [e EXCEPT !.objs[r][k].pc = "done"], {})
           ELSE Step(b, holder[b], ePost, NewRecords(b, e, ePost, r, gen))

\* handleRoundStart resumes after generateMicroProposal: gen is <<>> for
\* null, or a proposal
ProposalGenerated(b, r, k, gen) ==
    LET e == engine[b]
        d == FailOpenDecision(r, e.objs[r][k].triggerMessageId)
        eNull == raise([e EXCEPT !.rounds[r] = 0,
                                 !.objs[r][k].timeoutId = Off,
                                 !.objs[r][k].pc = "done"], d)
        cur == e.rounds[r]
        ePost == posting([e EXCEPT !.objs[r][cur].myProposal = gen,
                                   !.objs[r][k].pc = "post",
                                   !.objs[r][k].activeRound = cur],
                         "micro_propose", r)
    IN  /\ k \in DOMAIN e.objs[r]
        /\ e.objs[r][k].pc = "gen"
        /\ UNCHANGED summaries
        /\ IF gen = <<>>
             THEN Step(b, onDispatchDecision(holder[b], d), eNull, {})
           ELSE IF Inactive(e, r)
             THEN Step(b, holder[b], [e EXCEPT !.objs[r][k].pc = "done"], {})
           ELSE Step(b, holder[b], ePost, NewRecords(b, e, ePost, r, gen))

\* handleRoundStart resumes after posting its micro_propose
MicroProposePosted(b, r, k) ==
    LET e == engine[b]
        t == e.objs[r][k].activeRound
        e1 == [e EXCEPT !.objs[r][k].pc = "done"]
        e2 == IF /\ e1.objs[r][t].otherProposal # <<>>
                 /\ e1.objs[r][t].otherName # <<>>
                 /\ ~e1.objs[r][t].resolved
              THEN resolveRound(e1, r, t) ELSE e1
    IN  /\ k \in DOMAIN e.objs[r]
        /\ e.objs[r][k].pc = "post"
        /\ Step(b, holder[b], e2, NewRecords(b, e, e2, r, <<>>))
        /\ UNCHANGED summaries

\* resolveRound resumes after posting its resolved record: the decision
ResolvedPosted(b, r, k) ==
    LET e == engine[b]
        d == ResolveDecision(botName[b], e.objs[r][k])
    IN  /\ k \in DOMAIN e.objs[r]
        /\ e.objs[r][k].resolving
        /\ Step(b, onDispatchDecision(holder[b], d),
                raise([e EXCEPT !.objs[r][k].resolving = FALSE], d), {})
        /\ UNCHANGED summaries

RoundDeadlineMut(b, r, k) ==
    LET e == engine[b]
        e1 == [e EXCEPT !.objs[r][k].timeoutId = Off]
        d == FailOpenDecision(r, e.objs[r][k].triggerMessageId)
    IN  /\ k \in DOMAIN e.objs[r]
        /\ e.objs[r][k].timeoutId = 0
        /\ IF e.objs[r][k].resolved THEN Step(b, holder[b], e1, {})
           ELSE Step(b, onDispatchDecision(holder[b], d),
                     raise([e1 EXCEPT !.objs[r][k].resolved = TRUE], d), {})
        /\ UNCHANGED summaries

\* handleTimeout: the deadline timer of the k-th round object fires
RoundDeadline(b, r, k) ==
    LET e == engine[b]
        e1 == [e EXCEPT !.objs[r][k].timeoutId = Off]
        cur == e.rounds[r]
        d == FailOpenDecision(r, e.objs[r][cur].triggerMessageId)
    IN  /\ k \in DOMAIN e.objs[r]
        /\ e.objs[r][k].timeoutId = 0
        /\ IF Inactive(e, r) THEN Step(b, holder[b], e1, {})
           ELSE Step(b, onDispatchDecision(holder[b], d),
                     raise([e1 EXCEPT !.objs[r][cur].resolved = TRUE], d), {})
        /\ UNCHANGED summaries

\* setTimeout(() => rounds.delete(roundId), ROUND_CLEANUP_MS) fires
RoundCleanup(b, r, k) ==
    LET e == engine[b]
    IN  /\ k \in DOMAIN e.objs[r]
        /\ e.objs[r][k].cleanupId = 0
        /\ Step(b, holder[b], [e EXCEPT !.objs[r][k].cleanupId = Off,
                                        !.rounds[r] = 0], {})
        /\ UNCHANGED summaries

\* every running timer of a holder and of an engine
HolderTimers(h) ==
    {h.pendingDispatches[m].timeoutId : m \in Msgs}
        \cup {h.synthesisWait[m].left : m \in Msgs}
        \cup {h.seenMsgContent[k] : k \in MsgKeys}
EngineTimers(e) ==
    UNION { UNION {{e.objs[r][k].timeoutId, e.objs[r][k].cleanupId} :
                      k \in DOMAIN e.objs[r]} : r \in Msgs }

TickHolder(h) ==
    [h EXCEPT !.pendingDispatches = [m \in Msgs |-> [@[m] EXCEPT !.timeoutId = Dec(@)]],
              !.synthesisWait = [m \in Msgs |-> [@[m] EXCEPT !.left = Dec(@)]],
              !.seenMsgContent = [k \in MsgKeys |-> Dec(@[k])],
              !.heldFor = [m \in Msgs |->
                              IF @[m] = Off \/ @[m] = AgeCap THEN @[m] ELSE @[m] + 1]]
TickEngine(e) ==
    [e EXCEPT !.objs = [r \in Msgs |->
                          [k \in DOMAIN @[r] |->
                              [@[r][k] EXCEPT !.timeoutId = Dec(@),
                                              !.cleanupId = Dec(@)]]]]

\* time advances by one tick; a timer that has run out fires first
Tick ==
    /\ \A b \in Bots : 0 \notin HolderTimers(holder[b]) \cup EngineTimers(engine[b])
    /\ \E b \in Bots : \E t \in HolderTimers(holder[b]) \cup EngineTimers(engine[b]) : t > 0
    /\ holder' = [b \in Bots |-> TickHolder(holder[b])]
    /\ engine' = [b \in Bots |-> TickEngine(engine[b])]
    /\ sinceBoth' = [m \in Msgs |->
                        IF sinceBoth[m] = Off \/ sinceBoth[m] = AgeCap
                        THEN sinceBoth[m] ELSE sinceBoth[m] + 1]
    /\ UNCHANGED <<fIn, fOut, instances, mention, wire, summaries, bus, gw, sup, l2, reg>>

\* the steps of one instance
Instance(b) ==
    \/ \E m \in Msgs : DeliverMessage(b, m)
    \/ \E m \in Msgs : BackstopFire(b, m)
    \/ \E m \in Msgs : SynthesisWaitDone(b, m)
    \/ \E m \in Msgs, written \in BOOLEAN : DispatchReturned(b, m, written)
    \/ \E m \in Msgs : DispatchedExpire(b, m)
    \/ \E k \in MsgKeys : ContentExpire(b, k)
    \/ \E r \in Msgs : \E k \in DOMAIN engine[b].objs[r] : HistoryLoaded(b, r, k)
    \/ \E r \in Msgs : \E k \in DOMAIN engine[b].objs[r] :
          \E gen \in {<<>>} \cup {<<p>> : p \in ProposalPool} :
             ProposalGenerated(b, r, k, gen)
    \/ \E r \in Msgs : \E k \in DOMAIN engine[b].objs[r] : MicroProposePosted(b, r, k)
    \/ \E r \in Msgs : \E k \in DOMAIN engine[b].objs[r] : ResolvedPosted(b, r, k)
    \/ \E r \in Msgs : \E k \in DOMAIN engine[b].objs[r] : RoundDeadline(b, r, k)
    \/ \E r \in Msgs : \E k \in DOMAIN engine[b].objs[r] : RoundCleanup(b, r, k)

---------------------------------------------------------------------------
(* Spec: one instance against an arbitrary peer.  The peer's records reach *)
(* the instance in any order, at any time, any number of times, or never;  *)
(* the peer's response summary appears in the sink at any time while the   *)
(* instance holds the message (it reads the sink at no other time), or     *)
(* never.                                                                  *)

\* the rows of the peer of b that reach b for round r: its round_start and
\* its first micro_propose, with any proposal.  A resolved row of the peer
\* only enters the id window of b under an id of its own and is left out.
PeerRecords(b, r) ==
    {Record(botName[Peer(b)], "round_start", r, <<>>, 1)}
        \cup {Record(botName[Peer(b)], "micro_propose", r, <<p>>, 1) :
                  p \in ProposalPool}

\* the peer's writeResponseSummary for round r lands in the sink
PeerSummary(b, r) ==
    /\ holder[b].pendingDispatches[r].held
    /\ <<r, botName[Peer(b)]>> \notin summaries
    /\ summaries' = summaries \cup {<<r, botName[Peer(b)]>>}
    /\ UNCHANGED <<fIn, fOut, instances, mention, holder, engine, wire, sinceBoth,
                   bus, gw, sup, l2, reg>>

Next ==
    \/ Instance(Self)
    \/ \E r \in Msgs : \E rec \in PeerRecords(Self, r) : DeliverCoord(Self, rec)
    \/ \E r \in Msgs : PeerSummary(Self, r)
    \/ Tick

Spec == Init /\ [][Next]_vars

---------------------------------------------------------------------------
(* SpecStop: the instance of Spec, whose cleanup function stop() may be    *)
(* called at any moment.  The bus hands a stopped instance nothing more;   *)
(* the calls it was awaiting return, and the timers it did not clear fire. *)

\* stop() of the instance of bot b: the held entries, then the coordination
\* handler (the drain of the semaphore is Stop of SpecGateway)
StopInstance(b) ==
    /\ b \in instances
    /\ instances' = instances \ {b}
    /\ holder' = [holder EXCEPT ![b] = stopHolder(@)]
    /\ engine' = [engine EXCEPT ![b] = Collect(cleanup(@))]
    /\ sinceBoth' = Since(holder', sinceBoth)
    /\ UNCHANGED <<fIn, fOut, mention, wire, summaries, bus, gw, sup, l2, reg>>

NextStop ==
    \/ Next
    \/ StopInstance(Self)

SpecStop == Init /\ [][NextStop]_vars

---------------------------------------------------------------------------
(* SpecPair: the two instances together, on a prompt network.  Every       *)
(* awaited call returns and every posted record reaches the peer before    *)
(* time moves on; what stays free is when the bus hands each peer the user *)
(* message, which of two proposals each generator returns, and the order   *)
(* of the steps within a tick.  These are runs of the real system, not all *)
(* of them: no call fails, and the run ends before the dispatched window   *)
(* of 60 s does.                                                           *)

InitPair ==
    /\ fIn = <<>>
    /\ fOut = <<>>
    /\ instances = Bots
    /\ mention = <<>>
    /\ holder = [b \in Bots |-> InitHolder]
    /\ engine = [b \in Bots |-> InitEngine]
    /\ wire = {}
    /\ summaries = {}
    /\ sinceBoth = [m \in Msgs |-> Off]
    /\ bus = InitBus
    /\ gw = InitGw
    /\ sup = InitSup
    /\ l2 = InitL2
    /\ reg = InitReg

\* no call is awaited and no record is on its way
Quiet ==
    /\ \A b \in Bots : \A m \in Msgs :
          /\ ~holder[b].replying[m]
          /\ \A k \in DOMAIN engine[b].objs[m] :
                engine[b].objs[m][k].pc = "done" /\ ~engine[b].objs[m][k].resolving
    /\ \A rec \in wire : isDuplicate(engine[BotOf(rec.speaker, TRUE)], rec.id)

TickPair == Quiet /\ Tick

\* what the generators return in SpecPair: 0.80 on security or 0.40 on perf
PairPool ==
    { MkProposal(TextSecurity, 800, "undefined"),
      MkProposal(TextPerf, 400, "false") }

NextPair ==
    \/ \E b \in Bots, m \in Msgs : DeliverMessage(b, m)
    \/ \E b \in Bots, m \in Msgs : BackstopFire(b, m)
    \/ \E b \in Bots, m \in Msgs : DispatchReturned(b, m, TRUE)
    \/ \E b \in Bots, k \in MsgKeys : ContentExpire(b, k)
    \/ \E b \in Bots : \E rec \in wire :
          rec.speaker # botName[b] /\ DeliverCoord(b, rec)
    \/ \E b \in Bots, r \in Msgs : \E k \in DOMAIN engine[b].objs[r] : HistoryLoaded(b, r, k)
    \/ \E b \in Bots, r \in Msgs : \E k \in DOMAIN engine[b].objs[r] :
          \E p \in PairPool : ProposalGenerated(b, r, k, <<p>>)
    \/ \E b \in Bots, r \in Msgs : \E k \in DOMAIN engine[b].objs[r] : MicroProposePosted(b, r, k)
    \/ \E b \in Bots, r \in Msgs : \E k \in DOMAIN engine[b].objs[r] : ResolvedPosted(b, r, k)
    \/ \E b \in Bots, r \in Msgs : \E k \in DOMAIN engine[b].objs[r] : RoundDeadline(b, r, k)
    \/ \E b \in Bots, r \in Msgs : \E k \in DOMAIN engine[b].objs[r] : RoundCleanup(b, r, k)
    \/ TickPair

SpecPair == InitPair /\ [][NextPair]_vars

---------------------------------------------------------------------------
(* SpecPost: SpecPair with posts that fail.  postToCoordination catches    *)
(* every failure and returns nothing, so a failed post is a row that its   *)
(* caller awaited and that never reaches the peer.                         *)

\* the latest post of bot b of a kind for round r left no row
Lost(b, kind, r) ==
    /\ engine[b].posted[r][kind] >= 1
    /\ \A rec \in wire :
          ~(/\ rec.speaker = botName[b]
            /\ rec.kind = kind
            /\ rec.round_id = r
            /\ rec.id[4] = engine[b].posted[r][kind])

\* bot b awaits its post of the row rec
AwaitsPost(b, rec) ==
    LET e == engine[b]
        r == rec.round_id
    IN  /\ rec.speaker = botName[b]
        /\ rec.id[4] = e.posted[r][rec.kind]
        /\ \E k \in DOMAIN e.objs[r] :
              \/ rec.kind = "micro_propose" /\ e.objs[r][k].pc = "post"
              \/ rec.kind = "resolved" /\ e.objs[r][k].resolving

PostFailsMut(b, rec) ==
    /\ rec \in wire
    /\ AwaitsPost(b, rec)
    /\ ~isDuplicate(engine[Peer(b)], rec.id)
    /\ wire' = wire \ {rec}
    /\ engine' = [engine EXCEPT ![b].objs[rec.round_id] =
                      [k \in DOMAIN @ |->
                          [@[k] EXCEPT !.pc = IF @ = "post" THEN "done" ELSE @,
                                       !.resolving = FALSE]]]
    /\ UNCHANGED <<fIn, fOut, instances, mention, holder, summaries,
                   sinceBoth, bus, gw, sup, l2, reg>>

\* postToCoordination fails (the response is not ok, or fetch throws): the
\* failure is logged, the row is never inserted, the caller goes on
PostFails(b, rec) ==
    /\ rec \in wire
    /\ AwaitsPost(b, rec)
    /\ ~isDuplicate(engine[Peer(b)], rec.id)
    /\ wire' = wire \ {rec}
    /\ UNCHANGED <<fIn, fOut, instances, mention, holder, engine, summaries,
                   sinceBoth, bus, gw, sup, l2, reg>>

NextPost ==
    \/ NextPair
    \/ \E b \in Bots : \E rec \in wire : PostFails(b, rec)

SpecPost == InitPair /\ [][NextPost]_vars

---------------------------------------------------------------------------
(* SpecLayer2: the layer 2 handlers of both peers, with the rounds of A.   *)

InitLayer2 ==
    /\ fIn = <<>>
    /\ fOut = <<>>
    /\ instances = {"A", "B"}
    /\ mention = <<>>
    /\ holder = [b \in Bots |-> InitHolder]
    /\ engine = [b \in Bots |-> InitEngine]
    /\ wire = {}
    /\ summaries = {}
    /\ sinceBoth = [m \in Msgs |-> Off]
    /\ bus = InitBus
    /\ gw = InitGw
    /\ sup = InitSup
    /\ l2 = InitL2
    /\ reg = InitReg

NextLayer2 ==
    \/ \E s \in Stimuli : Send(s)
    \/ \E b \in Bots : \E rec \in l2.net : DeliverChat(b, rec)
    \/ \E b \in Bots, h \in L2Slots, response \in Responses, ok \in BOOLEAN :
          GatewayReturned(b, h, response, ok)
    \/ \E r \in Msgs :
          DeliverCoord("A", Record(botName["B"], "round_start", r, <<>>, 1))
    \/ \E r \in Msgs : \E k \in DOMAIN engine["A"].objs[r] : RoundDeadline("A", r, k)
    \/ \E r \in Msgs : \E k \in DOMAIN engine["A"].objs[r] : RoundCleanup("A", r, k)
    \/ Tick

SpecLayer2 == InitLayer2 /\ [][NextLayer2]_vars

---------------------------------------------------------------------------
(* Claims about the dispatch holder and the rounds.  One instance against  *)
(* an arbitrary peer is Spec; the two instances together are SpecPair.     *)

\* the last decision the engine of b raised for round r, if any
LastDecision(b, r) == engine[b].decisions[r].last

SoloWinnerOnly ==
    \A b \in Bots, m \in Msgs :
        (/\ \A x \in Bots : m \in holder[x].heldEver
         /\ LastDecision(b, m) # <<>>
         /\ LastDecision(b, m)[1].cancelPending
         /\ LastDecision(Peer(b), m) # <<>>
         /\ LastDecision(Peer(b), m)[1].synthesizeContext = "solo")
            => holder[b].dispatches[m] = <<>>

\* C3: for every user message held by both peers at least one peer calls
\* dispatchReply, the first call coming no later than max_round_ms + backstop
\* (15 s + 10 s) after the message was held by both.
ReplyWithinRoundAndBackstop ==
    \A m \in Msgs : sinceBoth[m] <= Ticks(ROUND_TIMEOUT_MS + BACKSTOP_MS)

\* C4 (EventualDispatch): every held message id leaves the held state within
\* max_round_ms + backstop + synthesis_wait (15 s + 10 s + 15 s) of the hold,
\* by a call of dispatchReply or by a cancel_pending decision.
EventualDispatch ==
    \A b \in Bots, m \in Msgs :
        /\ holder[b].heldFor[m] <=
               Ticks(ROUND_TIMEOUT_MS + BACKSTOP_MS + SYNTHESIS_WAIT_MS)
        /\ (m \in holder[b].heldEver /\ ~holder[b].pendingDispatches[m].held)
              => (holder[b].dispatches[m] # <<>> \/ m \in holder[b].cancelled)

\* the longest way out of the held state: the wait decision came as the
\* backstop was about to fire, the synthesis wait ran out, and the message
\* was dispatched with the fallback context
WitnessEventualDispatch ==
    \E m \in Msgs :
        /\ holder[Self].pendingDispatches[m].held
        /\ holder[Self].synthesisWait[m].on
        /\ holder[Self].synthesisWait[m].left = 0
        /\ holder[Self].heldFor[m] = Ticks(BACKSTOP_MS + SYNTHESIS_WAIT_MS)

\* C8 (ParallelBothReply): when a round resolves in parallel mode, the
\* decision raised by a peer, winner or runner-up, has should_respond = true
\* and carries neither cancel_pending nor wait_for_response.
ParallelBothReply ==
    [][\A b \in Bots, r \in Msgs : \A k \in DOMAIN engine[b].objs[r] :
          (/\ engine[b].objs[r][k].resolving
           /\ ~engine'[b].objs[r][k].resolving
           /\ coordinationFilter(engine[b].objs[r][k].myProposal[1],
                                 engine[b].objs[r][k].otherProposal[1],
                                 botName[b],
                                 engine[b].objs[r][k].otherName).mode = "parallel")
             => /\ LastDecision(b, r)' # <<>>
                /\ LastDecision(b, r)'[1].shouldRespond
                /\ ~LastDecision(b, r)'[1].cancelPending
                /\ LastDecision(b, r)'[1].waitForResponse = <<>>]_vars

\* the runner-up of a parallel round dispatched the held message with the
\* context of the parallel runner-up
WitnessParallelBothReply ==
    \E m \in Msgs :
        /\ m \in holder[Self].heldEver
        /\ LastDecision(Self, m) # <<>>
        /\ LastDecision(Self, m)[1].synthesizeContext = "parallel-both"
        /\ holder[Self].dispatches[m] = <<"parallel-both">>

\* C9 (SynthesisOrder): in a synthesis round the runner-up (the peer whose
\* engine raised the wait_for_response decision) calls dispatchReply only
\* with the winner's response, after the winner's summary was written, or
\* with the fallback context after the 15 s wait ran out.
SynthesisOrder ==
    \A b \in Bots, m \in Msgs :
        (/\ m \in holder[b].heldEver
         /\ engine[b].decisions[m].count = 1
         /\ LastDecision(b, m)[1].waitForResponse # <<>>)
            => \A i \in DOMAIN holder[b].dispatches[m] :
                  \/ /\ holder[b].dispatches[m][i] = "synthesis"
                     /\ <<m, botName[Peer(b)]>> \in summaries
                  \/ holder[b].dispatches[m][i] = "synthesis-fallback"

\* C10 (DedupIdempotence): delivering the same user message, the same
\* round_start or the same peer micro_propose more than once produces no
\* second dispatchReply and no second outbound round_start, micro_propose or
\* resolved record for the round.
DedupIdempotence ==
    \A b \in Bots, m \in Msgs :
        /\ Len(holder[b].dispatches[m]) <= 1
        /\ \A kind \in Kinds : engine[b].posted[m][kind] <= 1

WasResolved(b, r) ==
    engine[b].posted[r]["resolved"] >= 1 \/ engine[b].decisions[r].count >= 1

\* C15 (I3): once a round is resolved, by filter, deadline or failure, the
\* instance emits no micro_propose for that round any more.
NoProposalAfterResolved ==
    [][\A b \in Bots, r \in Msgs :
          WasResolved(b, r) =>
             engine'[b].posted[r]["micro_propose"] = engine[b].posted[r]["micro_propose"]]_vars

\* the round in the store under id r, if any
Stored(b, r) == engine[b].objs[r][engine[b].rounds[r]]

\* some handleRoundStart call is awaiting the post of the micro_propose of
\* the round in the store
PostPending(b, r) ==
    \E j \in DOMAIN engine[b].objs[r] :
        /\ engine[b].objs[r][j].pc = "post"
        /\ engine[b].objs[r][j].activeRound = engine[b].rounds[r]

\* C16 (I4): a peer proposal that arrives for an existing unresolved round
\* before the local proposal is generated is kept, and once the local
\* proposal is generated with the round still unresolved, the round is
\* resolved through the filter with the buffered proposal (its resolved
\* record is posted), with no further peer message.  The code calls
\* resolveRound when the post of its micro_propose has returned.
BufferedProposalUsed ==
    \A b \in Bots, r \in Msgs :
        (/\ engine[b].rounds[r] # 0
         /\ Stored(b, r).myProposal # <<>>
         /\ Stored(b, r).otherProposal # <<>>
         /\ ~PostPending(b, r))
            => /\ Stored(b, r).resolved
               /\ engine[b].posted[r]["resolved"] >= 1

\* C17 (I5): the cleanup timer of a round is scheduled only after the local
\* proposal generation for the round has completed or failed.
CleanupAfterGeneration ==
    \A b \in Bots, r \in Msgs : \A k \in DOMAIN engine[b].objs[r] :
        engine[b].objs[r][k].pc \in {"history", "gen"}
            => engine[b].objs[r][k].cleanupId = Off

\* C18 (I2): for each round id, once resolved has been true (the resolved
\* record of the round was posted) it is never observed false again.
ResolvedMonotonic ==
    \A b \in Bots, r \in Msgs :
        engine[b].posted[r]["resolved"] >= 1
            => (engine[b].rounds[r] = 0 \/ Stored(b, r).resolved)

\* the ids under which a round_start reaches the engine
RoundStartIds == {id \in {<<"local", "system", r, 0>> : r \in Msgs}
                          \cup {<<"round_start", botName[b], r, 1>> : b \in Bots, r \in Msgs} : TRUE}

\* C19 (I1): the store holds at most one round state per round id, and a
\* round_start for a round id that has a state is dropped: no new round
\* state and so no new deadline timer, no second generation, no second
\* micro_propose.
RoundStartDropped ==
    [][\A b \in Bots, r \in Msgs :
          engine[b].rounds[r] # 0 =>
             /\ engine'[b].rounds[r] \in {0, engine[b].rounds[r]}
             /\ Len(engine'[b].objs[r]) = Len(engine[b].objs[r])
             /\ (\E id \in RoundStartIds :
                    /\ id[3] = r
                    /\ id \notin engine[b].seenMessageIds
                    /\ id \in engine'[b].seenMessageIds)
                   => /\ engine'[b].objs = engine[b].objs
                      /\ engine'[b].rounds = engine[b].rounds
                      /\ engine'[b].decisions = engine[b].decisions
                      /\ engine'[b].posted[r]["micro_propose"] =
                            engine[b].posted[r]["micro_propose"]]_vars

\* both the local round_start and the peer's have reached the engine and
\* there has been one round state, which has proposed once
WitnessRoundStartDropped ==
    \E m \in Msgs :
        /\ <<"local", "system", m, 0>> \in engine[Self].seenMessageIds
        /\ <<"round_start", botName[Peer(Self)], m, 1>> \in engine[Self].seenMessageIds
        /\ Len(engine[Self].objs[m]) = 1
        /\ engine[Self].rounds[m] = 1
        /\ engine[Self].posted[m]["micro_propose"] = 1

\* C25: a decision raised for a message whose id is in the dispatched
\* window is dropped: it adds no dispatch and leaves the entry of the
\* message in pendingDispatches and its synthesis wait as they were.
DecisionRaceDropped ==
    [][\A m \in Msgs :
          (/\ m \in holder[Self].dispatched
           /\ engine'[Self].decisions[m].count > engine[Self].decisions[m].count)
          => /\ holder'[Self].dispatches[m] = holder[Self].dispatches[m]
             /\ holder'[Self].pendingDispatches[m] = holder[Self].pendingDispatches[m]
             /\ holder'[Self].synthesisWait[m] = holder[Self].synthesisWait[m]]_vars

\* the only round of the message began with its hold, the backstop has
\* dispatched the message, and the round's decision, a cancel, came after
\* that and was not applied
WitnessDecisionRaceDropped ==
    \E m \in Msgs :
        /\ m \in holder[Self].dispatched
        /\ holder[Self].dispatches[m] = <<"raw">>
        /\ Len(engine[Self].objs[m]) = 1
        /\ ~isDuplicate(engine[Self],
                        Record(botName[Peer(Self)], "round_start", m, <<>>, 1).id)
        /\ engine[Self].decisions[m].count = 1
        /\ LastDecision(Self, m)[1].cancelPending
        /\ m \notin holder[Self].cancelled

\* C27: within a round the instance's micro_propose is emitted before its
\* resolved record: when resolveRound posts the resolved record of a round,
\* no post of a micro_propose for that round is still awaited (and one was
\* made).
EmissionOrder ==
    [][\A r \in Msgs : \A t \in DOMAIN engine[Self].objs[r] :
          (/\ engine'[Self].objs[r][t].resolving
           /\ ~engine[Self].objs[r][t].resolving)
          => /\ engine'[Self].posted[r]["micro_propose"] >= 1
             /\ \A k \in DOMAIN engine'[Self].objs[r] :
                   ~(/\ engine'[Self].objs[r][k].pc = "post"
                     /\ engine'[Self].objs[r][k].activeRound = t)]_vars

\* C28: a continuation of handleRoundStart after an await (history load,
\* proposal generation, micro_propose post) that finds the round resolved
\* or gone from the store only ends: no round state changes, nothing is
\* posted and no decision is raised.
ContinuationRechecks ==
    [][\A r \in Msgs : \A k \in DOMAIN engine[Self].objs[r] :
          (/\ engine[Self].objs[r][k].pc \in {"history", "gen", "post"}
           /\ engine'[Self].objs[r][k].pc # engine[Self].objs[r][k].pc
           /\ Inactive(engine[Self], r))
          => engine'[Self] = [engine[Self] EXCEPT !.objs[r][k].pc = "done"]]_vars

\* C29: when the round deadline fires for a round that is in the store and
\* not resolved, a fail-open decision with shouldRespond = TRUE is raised
\* and the round is marked resolved; when it fires for a round that is
\* resolved or gone, no decision is raised and nothing changes (the spent
\* timer aside).
DeadlineFailOpen ==
    [][\A r \in Msgs : \A k \in DOMAIN engine[Self].objs[r] :
          RoundDeadline(Self, r, k) =>
            LET e == engine[Self]
                spent == [e EXCEPT !.objs[r][k].timeoutId = Off]
            IN  IF Inactive(e, r)
                THEN engine'[Self] = spent /\ holder'[Self] = holder[Self]
                ELSE /\ engine'[Self].decisions[r].count = e.decisions[r].count + 1
                     /\ engine'[Self].decisions[r].last[1].shouldRespond
                     /\ engine'[Self].decisions[r].last[1].triggerMessageId
                          = e.objs[r][e.rounds[r]].triggerMessageId
                     /\ engine'[Self].objs[r][e.rounds[r]].resolved
                     /\ engine'[Self].rounds = e.rounds
                     /\ engine'[Self].posted = e.posted]_vars

\* the deadline resolved a round while its proposal was being generated and
\* raised the round's only decision
WitnessDeadlineFailOpen ==
    \E r \in Msgs : \E k \in DOMAIN engine[Self].objs[r] :
        LET o == engine[Self].objs[r][k]
            dec == engine[Self].decisions[r]
        IN  /\ engine[Self].rounds[r] = k
            /\ o.pc = "gen" /\ o.resolved /\ ~o.resolving
            /\ o.timeoutId = Off /\ o.cleanupId # Off
            /\ engine[Self].posted[r]["resolved"] = 0
            /\ dec.count = 1 /\ dec.last[1].shouldRespond

PeerProposalDropped ==
    [][\A r \in Msgs : \A rec \in PeerRecords(Self, r) :
          (/\ rec.kind = "micro_propose"
           /\ Inactive(engine[Self], r)
           /\ rec.id \notin engine[Self].seenMessageIds
           /\ rec.id \in engine'[Self].seenMessageIds)
          => /\ engine'[Self].rounds = engine[Self].rounds
             /\ engine'[Self].objs = engine[Self].objs
             /\ engine'[Self].posted = engine[Self].posted
             /\ engine'[Self].decisions = engine[Self].decisions
             /\ holder' = holder /\ wire' = wire]_vars

\* a micro_propose of the peer was handled while the round in the store
\* was resolved by its deadline: the round holds no peer proposal
WitnessPeerProposalDropped ==
    \E r \in Msgs : \E rec \in PeerRecords(Self, r) :
        /\ rec.kind = "micro_propose"
        /\ rec.id \in engine[Self].seenMessageIds
        /\ engine[Self].rounds[r] # 0
        /\ LET o == engine[Self].objs[r][engine[Self].rounds[r]]
           IN  /\ o.resolved /\ o.otherProposal = <<>> /\ o.otherName = <<>>
               /\ engine[Self].posted[r]["resolved"] = 0
               /\ engine[Self].decisions[r].count = 1

\* C40: activeGatewayCalls equals the number of attempts that have
\* incremented it and not yet run their finally block (fetch in flight or
\* backoff sleep), and it stays within 0 .. 3, stop() included.
CounterMatchesHolders ==
    /\ gw.activeGatewayCalls
         = Cardinality({c \in Callers : gw.pc[c] \in {"fetch", "backoff"}})
    /\ gw.activeGatewayCalls >= 0
    /\ gw.activeGatewayCalls <= MAX_CONCURRENT_GATEWAY_CALLS

\* C36: the reconnect delay after the k-th consecutive ended iteration since
\* the last successful connect lies within 20% of min(2 s * 2^(k-1), 60 s);
\* a successful connect resets the counter, so the first reconnect after a
\* healthy connection has the 2 s base.
BackoffDelay ==
    [][/\ (sup'.pc = "sleeping" /\ sup.pc # "sleeping") =>
            LET k == sup.attempts + 1
                base == IF k >= 6 THEN 60000 ELSE 2000 * 2^(k - 1)
            IN  /\ sup'.attempts = k
                /\ 10 * sup'.delayMs >= 8 * base
                /\ 10 * sup'.delayMs <= 12 * base
                /\ (sup.cur # NoBus /\ sup.sub[sup.cur] # "none") => k = 1
       /\ sup'.pc = "waiting" => sup'.attempts = 0]_vars

\* the sixth consecutive failure: the delay is drawn around the 60 s cap,
\* above it
WitnessBackoffDelay ==
    /\ sup.pc = "sleeping" /\ sup.attempts = 6
    /\ sup.delayMs > 60000

\* C39: once stop() has run, the stopped instance calls doDispatch no more
\* and posts no coordination record, whatever was in flight at the stop.
SilentAfterStop ==
    [][Self \notin instances =>
          /\ engine'[Self].posted = engine[Self].posted
          /\ \A m \in Msgs :
                holder'[Self].dispatches[m] = holder[Self].dispatches[m]]_vars

\* C38: for each round the engine raises at most one dispatch decision,
\* over every interleaving of the deadline, the generator's return (proposal
\* or null), the peer's micro_propose and the filter resolution.
OneDecisionPerRound ==
    \A r \in Msgs : engine[Self].decisions[r].count <= 1

\* C35: after any sequence of register updates recentAngles holds at most 5
\* entries, at most one per agent, and its first entry is that of the last
\* responder, whom lastResponder names.
RegisterBounded ==
    LET q == reg.recentAngles
    IN  /\ Len(q) <= 5
        /\ \A i, j \in 1..Len(q) : q[i].agent = q[j].agent => i = j
        /\ IF q = <<>> THEN reg.lastResponder = ""
           ELSE reg.lastResponder = q[1].agent

\* five agents hold an entry and a sixth has just pushed the oldest out
WitnessRegisterBounded ==
    /\ Len(reg.recentAngles) = 5
    /\ reg.lastResponder = "a6"
    /\ \A i \in 1..5 : reg.recentAngles[i].agent # "a1"
    /\ reg.recentAngles[5].agent = "a2"

\* C32: while a round of the instance is unresolved, an inbound peer-chat
\* record (question, inform, flag, delegate, status) is dropped: the step
\* that consumes it starts no gateway call and puts no reply on its way.
PeerChatDroppedInRound ==
    [][\A b \in Bots : \A rec \in l2.net :
          (/\ rec.dst = b
           /\ rec.kind \in AgentKinds
           /\ hasActiveRound(engine[b])
           /\ rec \notin l2'.net)
          => l2' = [l2 EXCEPT !.net = @ \ {rec}]]_vars

\* a record addressed to A was consumed while a round of A is open, and A
\* never took it up
WitnessPeerChatDroppedInRound ==
    \E s \in Stimuli :
        /\ s.kind \in AgentKinds
        /\ s.to \in {NoTo, botName["A"]}
        /\ s.id \in l2.sent
        /\ s \notin l2.net
        /\ s.id \in engine["A"].seenMessageIds
        /\ respondedKey(s) \notin l2.respondedTo["A"]
        /\ hasActiveRound(engine["A"])

\* C37: the in-flight counter of a peer is the number of its layer 2 calls
\* waiting for the gateway, stays within 0..2, and a call arriving at
\* saturation reaches no gateway: it changes neither counter nor callers.
Layer2InflightBounded ==
    \A b \in Bots :
        /\ l2.layer2Inflight[b] =
               Cardinality({h \in L2Slots : l2.pc[b][h] = "gateway"})
        /\ l2.layer2Inflight[b] >= 0
        /\ l2.layer2Inflight[b] <= MAX_LAYER2_INFLIGHT
        /\ \A id \in l2.rejected :
               \A h \in L2Slots :
                   l2.rec[b][h] # NoRec => l2.rec[b][h].id # id

\* two calls of A are in flight and a third was rejected
WitnessLayer2InflightBounded ==
    /\ l2.layer2Inflight["A"] = MAX_LAYER2_INFLIGHT
    /\ l2.rejected # {}

\* C33: a reply is put on its way only by a handler whose incoming record
\* has depth below 6, it carries that depth plus one, and no record is more
\* than 6 automatic replies away from a written one.
ReplyDepthBounded ==
    [][\A rec \in l2'.net \ l2.net :
          /\ rec.hops <= MAX_COORDINATION_DEPTH
          /\ rec.hops > 0 =>
                \E b \in Bots : \E h \in L2Slots :
                    /\ l2.pc[b][h] = "gateway"
                    /\ l2'.pc[b][h] = "idle"
                    /\ l2.rec[b][h].depth < MAX_COORDINATION_DEPTH
                    /\ rec.depth = l2.rec[b][h].depth + 1
                    /\ rec.hops = l2.rec[b][h].hops + 1
                    /\ rec.dst = Peer(b)]_vars

\* the sixth reply of a chain, of depth 6, is on its way, and the receiver
\* of an earlier reply of depth 6 has taken it up and posted nothing
WitnessReplyDepthBounded ==
    /\ \E rec \in l2.net :
          rec.hops = MAX_COORDINATION_DEPTH /\ rec.depth = MAX_COORDINATION_DEPTH
    /\ \E b \in Bots :
          /\ <<botName[Peer(b)], ReplyText[MAX_COORDINATION_DEPTH]>> \in l2.respondedTo[b]
          /\ l2.layer2Inflight[b] = 0

\* C34: a failed post rolls nothing back.  The step in which the post fails
\* leaves the rounds and the held messages as they are; when the failed
\* micro_propose post returns, the round still holds my proposal and is
\* resolved if the peer's proposal is buffered; a peer proposal arriving
\* for the round after the failed post resolves it; and when the failed
\* resolved post returns, a decision is raised.
FailedPostKeepsRound ==
    [][\A b \in Bots : \A r \in Msgs :
          LET e == engine[b]
              f == engine'[b]
          IN  /\ (\E rec \in wire \ wire' : rec.speaker = botName[b])
                    => (f = e /\ holder' = holder)
              /\ \A k \in DOMAIN e.objs[r] :
                    (/\ Lost(b, "micro_propose", r)
                     /\ e.objs[r][k].pc = "post"
                     /\ f.objs[r][k].pc = "done")
                    => LET t == e.objs[r][k].activeRound
                       IN  /\ f.objs[r][t].myProposal = e.objs[r][t].myProposal
                           /\ f.objs[r][t].myProposal # <<>>
                           /\ (/\ e.objs[r][t].otherProposal # <<>>
                               /\ f.rounds[r] = t)
                              => f.objs[r][t].resolved
              /\ \A rec \in wire :
                    (/\ Lost(b, "micro_propose", r)
                     /\ rec.kind = "micro_propose"
                     /\ rec.round_id = r
                     /\ rec.speaker # botName[b]
                     /\ ~isDuplicate(e, rec.id)
                     /\ isDuplicate(f, rec.id)
                     /\ ~Inactive(e, r)
                     /\ e.objs[r][e.rounds[r]].myProposal # <<>>
                     /\ f.rounds[r] = e.rounds[r])
                    => /\ f.objs[r][e.rounds[r]].resolved
                       /\ f.objs[r][e.rounds[r]].resolving
              /\ \A k \in DOMAIN e.objs[r] :
                    (/\ Lost(b, "resolved", r)
                     /\ e.objs[r][k].resolving
                     /\ ~f.objs[r][k].resolving)
                    => f.decisions[r].count = e.decisions[r].count + 1]_vars

\* both posts of a bot for a round failed, the round was resolved from both
\* proposals and its decision was raised
WitnessFailedPostKeepsRound ==
    \E b \in Bots : \E r \in Msgs :
        LET e == engine[b]
        IN  /\ Lost(b, "micro_propose", r)
            /\ Lost(b, "resolved", r)
            /\ e.rounds[r] # 0
            /\ e.objs[r][e.rounds[r]].resolved
            /\ ~e.objs[r][e.rounds[r]].resolving
            /\ e.objs[r][e.rounds[r]].myProposal # <<>>
            /\ e.objs[r][e.rounds[r]].otherProposal # <<>>
            /\ e.decisions[r].count >= 1

\* C24: after stop() no timer of the instance is left running: no backstop
\* or defer backup timer of a message, and no deadline or cleanup timer of
\* a round (every timer running then was created before the stop).
TimersCancelledOnStop ==
    (Self \notin instances) =>
        /\ \A m \in Msgs : holder[Self].pendingDispatches[m].timeoutId = Off
        /\ \A r \in Msgs : \A k \in DOMAIN engine[Self].objs[r] :
              /\ engine[Self].objs[r][k].timeoutId = Off
              /\ engine[Self].objs[r][k].cleanupId = Off

---------------------------------------------------------------------------
(* Claims about the inbound layer (SpecBus, SpecBusFair), the gateway      *)
(* caller (SpecGateway) and the supervisor (SpecSupervisor).               *)

RowEndsHandled ==
    \A m \in BusMsgs : (bus.row[m] = "pending") ~> (bus.row[m] = "handled")

\* the fast path is processing the message without having claimed its row
\* (the update did not get through), and the poll, finding the id in
\* processedIds, is about to claim the row silently
WitnessRowEndsHandled ==
    \E m \in BusMsgs, p \in Polls :
        /\ bus.poll[p].pc = "silent"
        /\ bus.poll[p].cur = m
        /\ bus.row[m] = "pending"
        /\ \E t \in bus.fast : t.m = m /\ t.stage = "call"

\* C13 (StaleQuarantine): a row created before the boot of an instance is
\* never passed to the dispatch callback by that instance.
StaleQuarantine ==
    bus.staleCalls = {}

\* C21: once stop() has drained the semaphore, no caller is parked, no fetch
\* is started, and a caller woken from the queue returns null ("stopped")
\* when it goes on.
DrainWakesParked ==
    [][gw'.gatewayStopped =>
          /\ InFlight(gw') \subseteq InFlight(gw)
          /\ \A c \in Callers :
                /\ gw'.pc[c] # "parked"
                /\ (gw.gatewayStopped /\ gw.pc[c] = "woken")
                      => gw'.pc[c] \in {"woken", "stopped"}]_vars

\* stop() has woken two parked callers: one has returned null, the other is
\* about to go on
WitnessDrainWakesParked ==
    /\ gw.gatewayStopped
    /\ \E c, d \in Callers : gw.pc[c] = "woken" /\ gw.pc[d] = "stopped"

\* C22: the supervisor never has two live inbounds for one account: the
\* previous one, stale or of the last iteration, delivers nothing any more
\* when the next one is created.
SingleLiveInbound ==
    Cardinality(LiveInbound(sup)) <= 1

\* C23: once the abort signal is raised, startAccount comes to its end (the
\* loop exits), wherever it stood when the signal came.
AbortExits ==
    sup.aborted ~> (sup.pc = "exited")

\* C26: a path whose CAS update finds the row handled already by another
\* path does not invoke the dispatch callback for the message.
CasLostNoCallback ==
    bus.lostCalls = {}

\* C20: at no time are more than N = 3 gateway calls in flight through
\* callGateway.
GatewayCap ==
    Cardinality(InFlight(gw)) <= MAX_CONCURRENT_GATEWAY_CALLS

---------------------------------------------------------------------------
(* One evaluation of the filter by each of two peers.                      *)

InitFilter ==
    /\ fIn \in {i \in FilterInputs : i.na # i.nb}
    /\ fOut = <<>>
    /\ instances = {}
    /\ mention = <<>>
    /\ holder = [b \in Bots |-> InitHolder]
    /\ engine = [b \in Bots |-> InitEngine]
    /\ wire = {}
    /\ summaries = {}
    /\ sinceBoth = [m \in Msgs |-> Off]
    /\ bus = InitBus
    /\ gw = InitGw
    /\ sup = InitSup
    /\ l2 = InitL2
    /\ reg = InitReg

\* one peer evaluates the filter as (me, other), the other peer as (other, me)
RunFilter ==
    /\ fOut = <<>>
    /\ fOut' = <<coordinationFilter(fIn.pa, fIn.pb, fIn.na, fIn.nb),
                 coordinationFilter(fIn.pb, fIn.pa, fIn.nb, fIn.na)>>
    /\ UNCHANGED fIn
    /\ UNCHANGED protoVars
    /\ UNCHANGED ioVars

NextFilter == RunFilter

SpecFilter == InitFilter /\ [][NextFilter]_vars

---------------------------------------------------------------------------
(* Claims about the filter, checked under SpecFilter.                      *)

\* the number of occurrences of v in the sequence s
CountIn(s, v) == Cardinality({i \in DOMAIN s : s[i] = v})

\* the two sequences hold the same values, in any order
SameValues(s, t) ==
    /\ Len(s) = Len(t)
    /\ \A v \in Range(s) \cup Range(t) : CountIn(s, v) = CountIn(t, v)

\* C5 (FilterDeterminism, PeerAgreement): coordinationFilter(p_a, p_b, n_a, n_b)
\* and coordinationFilter(p_b, p_a, n_b, n_a) return the same mode, the same
\* winner, the same runner-up, and the same reason up to the order of the
\* values embedded in it.
FilterDeterminism ==
    fOut # <<>> =>
        /\ fOut[1].mode = fOut[2].mode
        /\ fOut[1].winner = fOut[2].winner
        /\ fOut[1].runnerUp = fOut[2].runnerUp
        /\ fOut[1].reason.rule = fOut[2].reason.rule
        /\ fOut[1].reason.who = fOut[2].reason.who
        /\ SameValues(fOut[1].reason.vals, fOut[2].reason.vals)

\* the filter ran on a tie between unequal confidences in which the caller's
\* own name is the larger one, and both peers named the other name the winner
WitnessFilterDeterminism ==
    /\ fOut # <<>>
    /\ fIn.pa.confidence # fIn.pb.confidence
    /\ Abs(fIn.pa.confidence - fIn.pb.confidence) < CONFIDENCE_EPSILON
    /\ LexLess(fIn.nb, fIn.na)
    /\ fOut[1].winner = fIn.nb
    /\ fOut[2].winner = fIn.nb
    /\ fOut[1].mode = "synthesis"

\* C6 (TieBreak): when the absolute difference of the confidences is below
\* epsilon the winner is the lexicographically smaller name and the runner-up
\* the other name, in every mode; otherwise the winner is the name whose
\* proposal has the higher confidence.
TieBreak ==
    fOut # <<>> =>
        LET r == fOut[1]
            d == fIn.pa.confidence - fIn.pb.confidence
            smaller == IF LexLess(fIn.nb, fIn.na) THEN fIn.nb ELSE fIn.na
            larger == IF smaller = fIn.na THEN fIn.nb ELSE fIn.na
        IN  IF Abs(d) < CONFIDENCE_EPSILON
            THEN r.winner = smaller /\ r.runnerUp = larger
            ELSE IF fIn.pa.confidence > fIn.pb.confidence
            THEN r.winner = fIn.na /\ r.runnerUp = fIn.nb
            ELSE r.winner = fIn.nb /\ r.runnerUp = fIn.na

\* a tie in which the winner by name holds the lower confidence
WitnessTieBreak ==
    /\ fOut # <<>>
    /\ fIn.pa.confidence = 700
    /\ fIn.pb.confidence = 705
    /\ fOut[1].winner = fIn.na
    /\ fOut[1].mode = "parallel"

\* C7: the mode is the mode of the first rule that matches, in the order
\* gap > 0.3 (solo), both > 0.5 and sim < 0.5 (parallel), both > 0.7 and
\* sim >= 0.5 and a builds_on_other (synthesis), solo otherwise; parallel and
\* synthesis are never returned when the gap exceeds 0.3.
FirstRuleWins ==
    fOut # <<>> =>
        LET a == fIn.pa.confidence
            b == fIn.pb.confidence
            gap == Abs(a - b)
            sim == angleSimilarity(fIn.pa, fIn.pb)
            low == 2 * sim.num < sim.den
            builds == fIn.pa.builds_on_other = "true" \/ fIn.pb.builds_on_other = "true"
            expected ==
                IF gap > 300 THEN "solo"
                ELSE IF a > 500 /\ b > 500 /\ low THEN "parallel"
                ELSE IF a > 700 /\ b > 700 /\ ~low /\ builds THEN "synthesis"
                ELSE "solo"
        IN  /\ fOut[1].mode = expected
            /\ gap > 300 => fOut[1].mode \notin {"parallel", "synthesis"}

\* rule 1 decided a case that rule 2 would have made parallel
WitnessFirstRuleWins ==
    /\ fOut # <<>>
    /\ Abs(fIn.pa.confidence - fIn.pb.confidence) > CONFIDENCE_GAP_THRESHOLD
    /\ fIn.pa.confidence > HIGH_CONFIDENCE_THRESHOLD
    /\ fIn.pb.confidence > HIGH_CONFIDENCE_THRESHOLD
    /\ FracLess(angleSimilarity(fIn.pa, fIn.pb), ANGLE_OVERLAP_THRESHOLD)
    /\ fOut[1].mode = "solo"
    /\ fOut[1].reason.rule = 1

=============================================================================
